---- MODULE Spec2Model ----
(***************************************************************************)
(* ThreadScout scan pipeline: the content-safety validators                *)
(* (server/services/validators.ts), the scoring client                     *)
(* (server/services/agentClient.ts), the discovery client                  *)
(* (server/services/redditClient.ts) and the two scan handlers             *)
(* (POST /scan and POST /scan/stream with POST /scan/cancel/:sessionId).   *)
(*                                                                         *)
(* A text is a sequence of one-character strings, so that the regular      *)
(* expressions and String methods of the source are computed character by  *)
(* character.                                                              *)
(***************************************************************************)
EXTENDS Integers, Sequences, FiniteSets, TLC

\* -------------------------------------------------------------------------
\* Bounds of the model
\* -------------------------------------------------------------------------

\* number of vocabulary pieces concatenated into an input text of the validators
MaxPieces == 4

\* number of candidates one subreddit search can contribute
MaxCandidates == 2

\* -------------------------------------------------------------------------
\* JavaScript String primitives over sequences of characters
\* -------------------------------------------------------------------------

None == "none"

\* \s of the regular expressions and of String.prototype.trim
WhiteSpace == {" ", "\n", "\t"}

\* the characters, besides white space, that the character class of urlRegex excludes
\* (the grave accent, which a TLA+ string cannot hold, is the character named GraveAccent)
GraveAccent == "GRAVE"

Delimiters == {"<", ">", "\"", "[", "]", "{", "}", "|", "\\", "^", GraveAccent}

Uppers == <<"A","B","C","D","E","F","G","H","I","J","K","L","M",
            "N","O","P","Q","R","S","T","U","V","W","X","Y","Z">>

Lowers == <<"a","b","c","d","e","f","g","h","i","j","k","l","m",
            "n","o","p","q","r","s","t","u","v","w","x","y","z">>

Digits == {"0","1","2","3","4","5","6","7","8","9"}

toLowerChar(c) ==
  IF \E i \in 1..26 : Uppers[i] = c
  THEN Lowers[CHOOSE i \in 1..26 : Uppers[i] = c]
  ELSE c

toLowerCase(t) == [i \in 1..Len(t) |-> toLowerChar(t[i])]

\* t has pat at (1-based) position p
startsWithAt(t, p, pat) ==
  /\ p >= 1
  /\ p + Len(pat) - 1 <= Len(t)
  /\ \A k \in 1..Len(pat) : t[p + k - 1] = pat[k]

\* String.prototype.indexOf, 1-based; 0 when pat does not occur
indexOf(t, pat) ==
  LET hits == {p \in 1..(Len(t) + 1) : startsWithAt(t, p, pat)}
  IN  IF hits = {} THEN 0 ELSE CHOOSE p \in hits : \A q \in hits : p <= q

includes(t, pat) == indexOf(t, pat) # 0

endsWith(t, pat) == Len(pat) <= Len(t) /\ startsWithAt(t, Len(t) - Len(pat) + 1, pat)

\* String.prototype.replace(pat, empty) with a string pattern: the first
\* occurrence of pat is removed, wherever it is
replaceFirst(t, pat) ==
  LET p == indexOf(t, pat)
  IN  IF p = 0 THEN t
      ELSE SubSeq(t, 1, p - 1) \o SubSeq(t, p + Len(pat), Len(t))

\* String.prototype.trim
trim(t) ==
  LET keep == {i \in 1..Len(t) : t[i] \notin WhiteSpace}
  IN  IF keep = {} THEN <<>>
      ELSE SubSeq(t, CHOOSE i \in keep : \A j \in keep : i <= j,
                     CHOOSE i \in keep : \A j \in keep : i >= j)

\* replace(/\s+/g, space): every maximal run of white space becomes one space
RECURSIVE collapseFrom(_, _)
collapseFrom(t, p) ==
  IF p > Len(t) THEN <<>>
  ELSE IF t[p] \in WhiteSpace
       THEN IF p > 1 /\ t[p - 1] \in WhiteSpace
            THEN collapseFrom(t, p + 1)
            ELSE <<" ">> \o collapseFrom(t, p + 1)
       ELSE <<t[p]>> \o collapseFrom(t, p + 1)

collapseWhitespace(t) == collapseFrom(t, 1)

\* String.prototype.split(dot)[0]
splitDotFirst(t) ==
  LET p == indexOf(t, <<".">>)
  IN  IF p = 0 THEN t ELSE SubSeq(t, 1, p - 1)

\* -------------------------------------------------------------------------
\* validators.ts
\* -------------------------------------------------------------------------

HTTP == <<"h","t","t","p",":","/","/">>
HTTPS == <<"h","t","t","p","s",":","/","/">>

\* length of the https?:\/\/ prefix at position p of the lower-cased text lt
\* (the regular expression has flag i), 0 when absent
schemeLenAt(lt, p) ==
  IF startsWithAt(lt, p, HTTPS) THEN 8
  ELSE IF startsWithAt(lt, p, HTTP) THEN 7
  ELSE 0

IsLinkChar(c) == c \notin (WhiteSpace \cup Delimiters)

\* last position of the greedy character class of urlRegex that starts at position p
RECURSIVE linkEnd(_, _)
linkEnd(t, p) ==
  IF p + 1 <= Len(t) /\ IsLinkChar(t[p + 1]) THEN linkEnd(t, p + 1) ELSE p

\* text.match(urlRegex) with flag g: leftmost matches, each search resuming
\* after the previous match; lt is t lower-cased
RECURSIVE matchFrom(_, _, _)
matchFrom(t, lt, p) ==
  IF p > Len(t) THEN <<>>
  ELSE LET n == schemeLenAt(lt, p)
       IN  IF n > 0 /\ p + n <= Len(t) /\ IsLinkChar(t[p + n])
           THEN LET e == linkEnd(t, p + n)
                IN  <<SubSeq(t, p, e)>> \o matchFrom(t, lt, e + 1)
           ELSE matchFrom(t, lt, p + 1)

extractLinks(text) == matchFrom(text, toLowerCase(text), 1)

\* the loop of enforceOneLink: cleaned = cleaned.replace(links[i], empty) for i >= 1
RECURSIVE removeLinksFrom(_, _, _)
removeLinksFrom(cleaned, links, i) ==
  IF i > Len(links) THEN cleaned
  ELSE removeLinksFrom(replaceFirst(cleaned, links[i]), links, i + 1)

enforceOneLink(text) ==
  LET links == extractLinks(text)
  IN  IF Len(links) <= 1
      THEN [ok |-> TRUE, cleaned |-> text, count |-> Len(links)]
      ELSE [ok |-> FALSE,
            cleaned |-> trim(collapseWhitespace(removeLinksFrom(text, links, 2))),
            count |-> Len(links)]

\* the position after the maximal run of white space that starts at p
RECURSIVE skipWhitespace(_, _)
skipWhitespace(t, p) ==
  IF p <= Len(t) /\ t[p] \in WhiteSpace THEN skipWhitespace(t, p + 1) ELSE p

\* replace(new RegExp(\s* + escaped link + \s*, g), space): every occurrence
\* of the link goes, with the white space around it, for one space
RECURSIVE replaceAllPadded(_, _, _)
replaceAllPadded(t, p, link) ==
  IF p > Len(t) THEN <<>>
  ELSE LET q == skipWhitespace(t, p)
       IN  IF startsWithAt(t, q, link)
           THEN <<" ">> \o replaceAllPadded(t, skipWhitespace(t, q + Len(link)), link)
           ELSE <<t[p]>> \o replaceAllPadded(t, p + 1, link)

\* replace(/[ \t]+/g, space)
RECURSIVE collapseBlanksFrom(_, _)
collapseBlanksFrom(t, p) ==
  IF p > Len(t) THEN <<>>
  ELSE IF t[p] \in {" ", "\t"}
       THEN IF p > 1 /\ t[p - 1] \in {" ", "\t"}
            THEN collapseBlanksFrom(t, p + 1)
            ELSE <<" ">> \o collapseBlanksFrom(t, p + 1)
       ELSE <<t[p]>> \o collapseBlanksFrom(t, p + 1)

\* replace(/\n\s*\n\s*\n+/g, two line breaks): a run of white space that
\* starts with a line break and holds three of them goes, up to its last
\* line break, for two line breaks
RECURSIVE collapseBlankLinesFrom(_, _)
collapseBlankLinesFrom(t, p) ==
  IF p > Len(t) THEN <<>>
  ELSE LET e == skipWhitespace(t, p)
           breaks == {i \in p..(e - 1) : t[i] = "\n"}
       IN  IF t[p] = "\n" /\ Cardinality(breaks) >= 3
           THEN <<"\n", "\n">>
                \o collapseBlankLinesFrom(t, (CHOOSE i \in breaks : \A j \in breaks : i >= j) + 1)
           ELSE <<t[p]>> \o collapseBlankLinesFrom(t, p + 1)

\* the loop of the shared enforceOneLink
RECURSIVE removeLinksSharedFrom(_, _, _)
removeLinksSharedFrom(cleaned, links, i) ==
  IF i > Len(links) THEN cleaned
  ELSE removeLinksSharedFrom(replaceAllPadded(cleaned, 1, links[i]), links, i + 1)

\* enforceOneLink of the shared validators
enforceOneLinkShared(text) ==
  LET links == extractLinks(text)
  IN  IF Len(links) <= 1
      THEN [ok |-> TRUE, cleaned |-> text, count |-> Len(links)]
      ELSE [ok |-> FALSE,
            cleaned |-> trim(collapseBlankLinesFrom(
                          collapseBlanksFrom(removeLinksSharedFrom(text, links, 2), 1), 1)),
            count |-> Len(links)]

\* replace(/^www\./, empty)
stripWww(d) ==
  IF startsWithAt(d, 1, <<"w","w","w",".">>) THEN SubSeq(d, 5, Len(d)) ELSE d

\* positions of t that hold a character of set S
positionsOf(t, S) == {i \in 1..Len(t) : t[i] \in S}

minOf(S) == CHOOSE i \in S : \A j \in S : i <= j

maxOf(S) == CHOOSE i \in S : \A j \in S : i >= j

DigitSeq == <<"0","1","2","3","4","5","6","7","8","9">>

\* the number a string of digits denotes (0 for the empty string)
RECURSIVE decimalValue(_)
decimalValue(ds) ==
  IF ds = <<>> THEN 0
  ELSE 10 * decimalValue(SubSeq(ds, 1, Len(ds) - 1))
       + (CHOOSE v \in 0..9 : DigitSeq[v + 1] = ds[Len(ds)])

\* the text behind its leading slashes
RECURSIVE skipSlashes(_)
skipSlashes(t) ==
  IF t # <<>> /\ t[1] = "/" THEN skipSlashes(SubSeq(t, 2, Len(t))) ELSE t

\* the part of t before its first character of set S (all of t if none)
prefixBefore(t, S) ==
  IF positionsOf(t, S) = {} THEN t ELSE SubSeq(t, 1, minOf(positionsOf(t, S)) - 1)

\* the part of t behind its first character of set S (empty if none)
suffixAfterFirst(t, S) ==
  IF positionsOf(t, S) = {} THEN <<>> ELSE SubSeq(t, minOf(positionsOf(t, S)) + 1, Len(t))

\* the part of t behind its last character of set S (all of t if none)
suffixAfterLast(t, S) ==
  IF positionsOf(t, S) = {} THEN t ELSE SubSeq(t, maxOf(positionsOf(t, S)) + 1, Len(t))

\* a port is made of digits and is at most 65535
validPort(port) ==
  /\ \A i \in 1..Len(port) : port[i] \in Digits
  /\ decimalValue(port) <= 65535

\* host and port of the URL, given the text between credentials and path
hostOfHostport(hostport) ==
  [ok |-> /\ prefixBefore(hostport, {":"}) # <<>>
          /\ positionsOf(prefixBefore(hostport, {":"}), {"%"}) = {}
          /\ validPort(suffixAfterFirst(hostport, {":"})),
   hostname |-> toLowerCase(prefixBefore(hostport, {":"}))]

\* new URL(link).hostname for a link of extractLinks (scheme http or https,
\* no white space): the slashes after the scheme are skipped, the authority
\* runs to the first of / ? #, credentials end at its last @, a port follows
\* the first colon of what remains and must be digits, and the host must be
\* non-empty and free of percent signs; the host is lower-cased.  ok = FALSE
\* stands for the TypeError of the constructor.  (Hosts that are numbers, and
\* so would be read as IPv4 addresses, do not occur in the texts used here.)
urlHostname(link) ==
  hostOfHostport(
    suffixAfterLast(
      prefixBefore(
        skipSlashes(SubSeq(link, schemeLenAt(toLowerCase(link), 1) + 1, Len(link))),
        {"/", "?", "#"}),
      {"@"}))

\* the allowlist.some(...) of enforceAllowlist
isAllowed(normalizedDomain, allowlist) ==
  \E k \in 1..Len(allowlist) :
    \/ normalizedDomain = stripWww(toLowerCase(allowlist[k]))
    \/ endsWith(normalizedDomain, <<".">> \o stripWww(toLowerCase(allowlist[k])))

\* the body of the for (const link of links) loop of enforceAllowlist; url
\* is the outcome of new URL(link)
allowlistStep(acc, link, url, allowlist) ==
  IF ~url.ok
  THEN [cleaned |-> replaceFirst(acc.cleaned, link), violations |-> Append(acc.violations, link)]
  ELSE IF ~isAllowed(stripWww(url.hostname), allowlist)
  THEN [cleaned |-> replaceFirst(acc.cleaned, link),
        violations |-> Append(acc.violations, url.hostname)]
  ELSE acc

\* the for (const link of links) loop of enforceAllowlist, from link i on
RECURSIVE allowlistLoop(_, _, _, _)
allowlistLoop(acc, links, allowlist, i) ==
  IF i > Len(links) THEN acc
  ELSE allowlistLoop(allowlistStep(acc, links[i], urlHostname(links[i]), allowlist),
                     links, allowlist, i + 1)

\* the part of enforceAllowlist behind its loop
allowlistResult(r) ==
  [ok |-> Len(r.violations) = 0,
   cleaned |-> trim(collapseWhitespace(r.cleaned)),
   violations |-> r.violations]

\* enforceAllowlist without its early return for an empty allowlist
enforceAllowlistNoEarlyReturn(text, allowlist) ==
  allowlistResult(allowlistLoop([cleaned |-> text, violations |-> <<>>],
                                extractLinks(text), allowlist, 1))

enforceAllowlist(text, allowlist) ==
  IF Len(allowlist) = 0
  THEN [ok |-> TRUE, cleaned |-> text, violations |-> <<>>]
  ELSE allowlistResult(allowlistLoop([cleaned |-> text, violations |-> <<>>],
                                     extractLinks(text), allowlist, 1))

\* the loop body of the shared enforceAllowlist: a rejected link goes at
\* every occurrence, with the white space around it, for one space
allowlistStepShared(acc, link, url, allowlist) ==
  IF ~url.ok
  THEN [cleaned |-> replaceAllPadded(acc.cleaned, 1, link),
        violations |-> Append(acc.violations, link)]
  ELSE IF ~isAllowed(stripWww(url.hostname), allowlist)
  THEN [cleaned |-> replaceAllPadded(acc.cleaned, 1, link),
        violations |-> Append(acc.violations, url.hostname)]
  ELSE acc

RECURSIVE allowlistLoopShared(_, _, _, _)
allowlistLoopShared(acc, links, allowlist, i) ==
  IF i > Len(links) THEN acc
  ELSE allowlistLoopShared(allowlistStepShared(acc, links[i], urlHostname(links[i]), allowlist),
                           links, allowlist, i + 1)

\* the part of the shared enforceAllowlist behind its loop
allowlistResultShared(r) ==
  [ok |-> Len(r.violations) = 0,
   cleaned |-> trim(collapseBlankLinesFrom(collapseBlanksFrom(r.cleaned, 1), 1)),
   violations |-> r.violations]

\* enforceAllowlist of the shared validators
enforceAllowlistShared(text, allowlist) ==
  IF Len(allowlist) = 0
  THEN [ok |-> TRUE, cleaned |-> text, violations |-> <<>>]
  ELSE allowlistResultShared(allowlistLoopShared([cleaned |-> text, violations |-> <<>>],
                                                 extractLinks(text), allowlist, 1))

\* ensureDisclosure with a case-sensitive test
ensureDisclosureCaseSensitive(text, disclosure) ==
  IF includes(text, disclosure)
  THEN text
  ELSE LET trimmedText == trim(text)
           separator == IF /\ ~endsWith(trimmedText, <<".">>)
                           /\ ~endsWith(trimmedText, <<"!">>)
                           /\ ~endsWith(trimmedText, <<"?">>)
                        THEN <<".">> ELSE <<>>
       IN  trimmedText \o separator \o <<"\n", "\n">> \o disclosure

ensureDisclosure(text, disclosure) ==
  IF includes(toLowerCase(text), toLowerCase(disclosure))
  THEN text
  ELSE LET trimmedText == trim(text)
           separator == IF /\ ~endsWith(trimmedText, <<".">>)
                           /\ ~endsWith(trimmedText, <<"!">>)
                           /\ ~endsWith(trimmedText, <<"?">>)
                        THEN <<".">> ELSE <<>>
       IN  trimmedText \o separator \o <<"\n", "\n">> \o disclosure

\* -------------------------------------------------------------------------
\* Array.prototype.sort with a descending numeric comparator (stable)
\* -------------------------------------------------------------------------

\* keys[i] is the sort key of xs[i]; the stable sort puts xs[i] behind the elements with a larger key and
\* behind the earlier elements with the same key
sortDesc(xs, keys) ==
  LET ahead(i) == {j \in 1..Len(xs) : \/ keys[j] > keys[i]
                                      \/ keys[j] = keys[i] /\ j < i}
      at(k) == CHOOSE i \in 1..Len(xs) : Cardinality(ahead(i)) = k - 1
  IN  [k \in 1..Len(xs) |-> xs[at(k)]]

\* a slice that kept every element
sliceToAll(xs, n) == xs

\* Array.prototype.slice(0, n)
sliceTo(xs, n) == SubSeq(xs, 1, IF n < Len(xs) THEN n ELSE Len(xs))

\* -------------------------------------------------------------------------
\* redditClient.ts: posts and discovery
\* -------------------------------------------------------------------------

\* the subreddits of the scan request
Subs == <<"sub1", "sub2">>

\* the posts reddit can return: post p of MaxCandidates many in sub1, none in sub2
PostIds == 1..MaxCandidates

\* a post as searchThreads maps it to a CandidateThread; the title is kept
\* as the three facts getMockResponse reads from it, the id as the code of
\* its first character
Post(p) ==
  [id |-> p, sub |-> "sub1",
   createdUtc |-> 3600 * (p % 3), upvotes |-> 10 * p, comments |-> 5 * (p % 2),
   titleHasQuestionMark |-> (p % 2 = 1), titleHasHowWhat |-> FALSE,
   titleHasHelpWord |-> (p % 2 = 0), idCharCode |-> 48 + p]

\* what one search request of searchThreads can yield for a subreddit: a
\* failed request, or the matching posts in the order of the listing
SearchOutcomes(sub) ==
  IF sub = "sub1"
  THEN {[ok |-> FALSE]}
       \cup {[ok |-> TRUE, posts |-> <<p>>] : p \in PostIds}
       \cup {[ok |-> TRUE, posts |-> [i \in 1..n |-> i]] : n \in 0..MaxCandidates}
  ELSE {[ok |-> FALSE], [ok |-> TRUE, posts |-> <<>>]}

\* the sort key of searchThreads, times ten:
\* createdUtc / 3600 + upvotes * 0.1 + comments * 0.2
discoveryRank10(c) == (c.createdUtc \div 360) + c.upvotes + 2 * c.comments

DiscoveryLimit == 50

\* the tail of searchThreads: sort by recency and engagement, keep the top 50
rankCandidates(candidates) ==
  sliceTo(sortDesc(candidates, [k \in 1..Len(candidates) |-> discoveryRank10(candidates[k])]),
          DiscoveryLimit)

\* -------------------------------------------------------------------------
\* agentClient.ts
\* -------------------------------------------------------------------------

\* JavaScript values whose type the code tests or depends on
JUndefined == [t |-> "undefined"]

JString(v) == [t |-> "string", v |-> v]

JNumber(v) == [t |-> "number", v |-> v]

JArray(v) == [t |-> "array", v |-> v]

\* the outcome of a call that can throw
Throws == [throws |-> TRUE]

Returns(v) == [throws |-> FALSE, value |-> v]

\* the two replies of generateVariantA, their prose shortened to its first
\* and last words; neither holds a link
MockHelpQuestion == <<"H","e","r","e"," ","a","r","e"," ","s","t","e","p","s","!">>

MockHelpOther == <<"H","o","p","e"," ","t","h","i","s"," ","h","e","l","p","s","!">>

generateVariantA(thread) ==
  IF thread.titleHasQuestionMark THEN MockHelpQuestion ELSE MockHelpOther

\* generateVariantB; it throws the TypeError of allowlist.length when the
\* caller passed no allowlist and links are allowed
generateVariantB(thread, linksAllowed, allowlist) ==
  IF ~linksAllowed
  THEN Returns([text |-> generateVariantA(thread), disclosure |-> JUndefined])
  ELSE IF allowlist.t = "undefined" THEN Throws
  ELSE IF Len(allowlist.v) = 0
  THEN Returns([text |-> generateVariantA(thread), disclosure |-> JUndefined])
  ELSE LET domain == allowlist.v[1]
           text == IF thread.titleHasQuestionMark
                   THEN <<"s","e","e",":"," ">> \o HTTPS \o domain
                        \o <<"/","d","o","c","s"," ","-"," ">> \o MockHelpQuestion
                   ELSE <<"s","e","e",":"," ">> \o HTTPS \o domain
                        \o <<"/","g","u","i","d","e","s"," ","-"," ">> \o MockHelpOther
       IN  Returns([text |-> text,
                    disclosure |-> JString(<<"I"," ","w","o","r","k"," ","o","n"," ">>
                                           \o splitDotFirst(domain))])

minNum(a, b) == IF a < b THEN a ELSE b

maxNum(a, b) == IF a > b THEN a ELSE b

\* getMockResponse: a response computed from the thread alone; origin marks
\* that the scoring service did not produce it
getMockResponse(thread, rules, allowlist) ==
  LET hasQuestion == thread.titleHasQuestionMark \/ thread.titleHasHowWhat
      baseScore == 45 + (IF hasQuestion THEN 20 ELSE 0)
                      + (IF thread.titleHasHelpWord THEN 15 ELSE 0)
                      + (IF thread.upvotes > 5 THEN 10 ELSE 0)
                      + (IF thread.comments > 3 THEN 5 ELSE 0)
      score == minNum(85, maxNum(25, baseScore + (thread.idCharCode % 20) - 10))
      variantB == generateVariantB(thread, rules.linksAllowed, allowlist)
  IN  IF variantB.throws THEN Throws
      ELSE Returns([score |-> score, variantA |-> generateVariantA(thread),
                    variantB |-> variantB.value.text,
                    disclosure |-> variantB.value.disclosure,
                    origin |-> "mock"])

\* isValidAgentResponse over the decoded value; variantAText and variantBText
\* are data.variantA?.text and data.variantB?.text
isValidAgentResponse(data) ==
  /\ data.score.t = "number"
  /\ data.whyFit.t = "string"
  /\ data.rulesSummary.t = "array"
  /\ data.risks.t = "array"
  /\ data.variantAText.t = "string"
  /\ data.variantBText.t = "string"

\* parseAgentResponse: data is what response.json() gave.  kind "nocontent":
\* no choices[0].message.content; "notjson": JSON.parse(content) throws;
\* "json": content decodes to data.parsed
parseAgentResponse(data, thread, rules, allowlist) ==
  IF data.kind = "json" /\ isValidAgentResponse(data.parsed)
  THEN Returns([score |-> data.parsed.score.v,
                variantA |-> data.parsed.variantAText.v,
                variantB |-> data.parsed.variantBText.v,
                disclosure |-> data.parsed.disclosure,
                origin |-> "service"])
  ELSE getMockResponse(thread, rules, allowlist)

\* scoreAndDraft up to its first await: "fetch" when the request to the
\* scoring service is under way, otherwise the outcome of the call.
\* createAgentPrompt reads allowlist.length inside the try block.
scoreAndDraftStart(thread, rules, allowlist, hasCredentials) ==
  IF ~hasCredentials
  THEN [fetch |-> FALSE, result |-> getMockResponse(thread, rules, allowlist)]
  ELSE IF allowlist.t = "undefined"
  THEN [fetch |-> FALSE, result |-> getMockResponse(thread, rules, allowlist)]
  ELSE [fetch |-> TRUE]

\* scoreAndDraft after the fetch.  reply.kind "transport": fetch rejects;
\* "http": a response with ok = false; "nojson": response.json() rejects;
\* otherwise the body decoded by response.json()
scoreAndDraftFinish(reply, thread, rules, allowlist) ==
  IF reply.kind \in {"transport", "http", "nojson"}
  THEN getMockResponse(thread, rules, allowlist)
  ELSE parseAgentResponse(reply, thread, rules, allowlist)

\* -------------------------------------------------------------------------
\* The draft validation of both scan handlers
\* (scan.ts lines 94-141, the stream handler lines 276-307)
\* -------------------------------------------------------------------------

LowerHttp == <<"h","t","t","p">>

\* the generated default disclosure
defaultDisclosure(allowlist) ==
  LET firstPart == IF Len(allowlist) = 0 THEN <<>> ELSE splitDotFirst(allowlist[1])
  IN  <<"I"," ","w","o","r","k"," ","o","n"," ">>
      \o (IF firstPart = <<>> THEN <<"t","h","i","s"," ","p","r","o","d","u","c","t">>
          ELSE firstPart)

\* !variantBDisclosure
isFalsy(j) ==
  \/ j.t = "undefined"
  \/ j.t = "string" /\ j.v = <<>>
  \/ j.t = "number" /\ j.v = 0

\* from the agent response to the ThreadAnalysis; throws when
\* ensureDisclosure is handed a disclosure that is not a string
buildAnalysis(fullThread, agentResponse, rules, allowlist) ==
  LET variantAOneLink == enforceOneLink(agentResponse.variantA)
      variantAAllowlist == enforceAllowlist(variantAOneLink.cleaned, allowlist)
      variantBOneLink == enforceOneLink(agentResponse.variantB)
      variantBAllowlist == enforceAllowlist(variantBOneLink.cleaned, allowlist)
      needsDisclosure == /\ rules.vendorDisclosureRequired
                         /\ variantBAllowlist.ok
                         /\ includes(variantBAllowlist.cleaned, LowerHttp)
      variantBDisclosure == IF needsDisclosure /\ isFalsy(agentResponse.disclosure)
                            THEN JString(defaultDisclosure(allowlist))
                            ELSE agentResponse.disclosure
  IN  IF needsDisclosure /\ variantBDisclosure.t # "string"
      THEN Throws
      ELSE Returns([thread |-> fullThread.id,
                    score |-> agentResponse.score,
                    rules |-> rules,
                    variantA |-> variantAAllowlist.cleaned,
                    variantB |-> IF needsDisclosure
                                 THEN ensureDisclosure(variantBAllowlist.cleaned,
                                                       variantBDisclosure.v)
                                 ELSE variantBAllowlist.cleaned,
                    disclosure |-> variantBDisclosure,
                    origin |-> agentResponse.origin])

\* -------------------------------------------------------------------------
\* State
\* -------------------------------------------------------------------------

\* number of scan requests the server receives
NumScans == 2

ScanIds == 1..NumScans

\* scans[s]: the locals of the s-th scan request (POST /scan or POST
\* /scan/stream with its scanWithStreaming call), its position pc, its
\* cancellation handle scanControl.cancelled, and trace, the sequence of its
\* effects: stream events enqueued, storage writes, close, deregistration;
\* searchFailures counts the subreddit searches that searchThreads logged as
\* failed, logged holds the ids of the candidates whose failure was logged
VARIABLE scans

\* the module-level Map activeScans: session id -> scan owning the handle, 0 if absent
VARIABLE activeScans

\* the session records of the storage provider: session id -> record
VARIABLE storage

\* the HTTP status of the latest reply of POST /scan/cancel/:sessionId, 0 before any
VARIABLE cancelReply

\* whether AGENT_ENDPOINT_URL and AGENT_API_KEY are set
VARIABLE agentCredentials

\* the validators called on their own: arguments and results
VARIABLE vText

VARIABLE vAllowlist

VARIABLE vDisclosure

\* the validator applied and what it returned
VARIABLE vResult

\* the rules cache of the storage provider: subreddit -> the content of
\* cache/rules/<subreddit>.json, NoRecord when there is none
VARIABLE rulesStore

\* Date.now(), in milliseconds since the rules cache was first used
VARIABLE now

\* the getRules call in progress or the latest one finished: its locals and
\* its position
VARIABLE rulesCall

\* the outcome records of the storage provider: threadId -> the content of
\* outcomes/<threadId>.json, NoRecord when there is none
VARIABLE outcomeStore

\* the POST /outcomes requests: the position and the locals of each
VARIABLE outcomeCalls

scanVars == <<scans, activeScans, storage, cancelReply, agentCredentials>>

validatorVars == <<vText, vAllowlist, vDisclosure, vResult>>

cacheVars == <<rulesStore, now, rulesCall>>

outcomeVars == <<outcomeStore, outcomeCalls>>

vars == <<scans, activeScans, storage, cancelReply, agentCredentials,
          vText, vAllowlist, vDisclosure, vResult, rulesStore, now, rulesCall,
          outcomeStore, outcomeCalls>>

\* the threads outcomes are recorded for
ThreadIds == {"t1", "t2"}

\* the POST /outcomes requests looked at
OutcomeRequests == {1, 2}

\* the subreddits whose rules are looked up
CachedSubs == {"sub1", "sub2"}

\* no getRules call yet
IdleCall == [pc |-> "idle"]

NoSessionId == ""

\* scan_${Date.now()}_${random}: a fresh id for each scan
generatedSessionId(s) == <<"scan_1", "scan_2", "scan_3", "scan_4">>[s]

CallerSessionIds == {"A"}

SessionIds == CallerSessionIds \cup {generatedSessionId(s) : s \in ScanIds}

NoRecord == [absent |-> TRUE]

DefaultThreadLimit == 10

IdleScan ==
  [pc |-> "idle", mode |-> "none", sessionId |-> NoSessionId, allowlist |-> <<>>,
   maxThreads |-> DefaultThreadLimit, subIdx |-> 0, candidates |-> <<>>,
   searchFailures |-> 0,
   topCandidates |-> <<>>, i |-> 0,
   rules |-> [linksAllowed |-> FALSE, vendorDisclosureRequired |-> FALSE, linkLimit |-> 0],
   fullThread |-> NoRecord, analyses |-> <<>>, cancelled |-> FALSE, logged |-> <<>>,
   response |-> [status |-> 0], trace |-> <<>>]

\* -------------------------------------------------------------------------
\* Stream events and other effects recorded in trace
\* -------------------------------------------------------------------------

Status == [type |-> "status"]

Progress(current, total) == [type |-> "progress", current |-> current, total |-> total]

ThreadEvent(analysis) == [type |-> "thread", thread |-> analysis]

\* the per-candidate error event: { type: error, message }
CandidateError == [type |-> "error", message |-> "Failed to process thread"]

CancelledEvent == [type |-> "cancelled"]

\* a completed event that counted one thread too many
CompletedOffByOne(n) == [type |-> "completed", totalThreads |-> n + 1]

Completed(n) == [type |-> "completed", totalThreads |-> n]

\* the fatal error event: { type: error, error, details }
FatalError == [type |-> "error", error |-> "Scan failed"]

Write(key, threads) == [type |-> "write", key |-> key, threads |-> threads]

Close == [type |-> "close"]

Deregister(key) == [type |-> "deregister", key |-> key]

IsStreamEvent(e) == e.type \in {"status", "progress", "thread", "error", "cancelled", "completed"}

IsTerminal(e) ==
  \/ e.type \in {"completed", "cancelled"}
  \/ e.type = "error" /\ "error" \in DOMAIN e

\* the events a client of the stream of scan s has received
Events(s) == SelectSeq(scans[s].trace, IsStreamEvent)

\* -------------------------------------------------------------------------
\* The code of the two handlers between awaits, as functions of the scan record
\* -------------------------------------------------------------------------

emit(sc, e) == IF sc.mode = "stream" THEN [sc EXCEPT !.trace = Append(@, e)] ELSE sc

\* loopHead without the check of scanControl.cancelled
loopHeadNoCancelCheck(sc, i) ==
  IF i >= Len(sc.topCandidates)
  THEN [sc EXCEPT !.i = i, !.pc = "write"]
  ELSE IF sc.mode = "stream"
  THEN [emit(sc, Progress(i + 1, Len(sc.topCandidates))) EXCEPT !.i = i, !.pc = "rules"]
  ELSE IF i > 0
       THEN [sc EXCEPT !.i = i, !.pc = "delay"]
       ELSE [sc EXCEPT !.i = i, !.pc = "rules"]

\* the head of iteration i (0-based) of the loop over topCandidates, up to
\* the next await: the storage write behind the loop, the pacing delay
\* (POST /scan) or getRules.  The stream handler checks scanControl.cancelled
\* first and breaks.
loopHead(sc, i) ==
  IF i >= Len(sc.topCandidates)
  THEN [sc EXCEPT !.i = i, !.pc = "write"]
  ELSE IF sc.mode = "stream"
  THEN IF sc.cancelled
       THEN [emit(sc, CancelledEvent) EXCEPT !.i = i, !.pc = "write"]
       ELSE [emit(sc, Progress(i + 1, Len(sc.topCandidates))) EXCEPT !.i = i, !.pc = "rules"]
  ELSE IF i > 0
       THEN [sc EXCEPT !.i = i, !.pc = "delay"]
       ELSE [sc EXCEPT !.i = i, !.pc = "rules"]

\* the finally block of scanWithStreaming behind controller.close()
closeAndDeregister(sc) ==
  [sc EXCEPT !.trace = @ \o <<Close, Deregister(sc.sessionId)>>, !.pc = "done"]

\* the code behind await searchThreads
afterDiscovery(sc, candidates) ==
  IF sc.mode = "stream" /\ sc.cancelled
  THEN closeAndDeregister(emit(sc, CancelledEvent))
  ELSE loopHead([emit(sc, Status) EXCEPT
                   !.topCandidates = sliceTo(candidates, sc.maxThreads),
                   !.analyses = <<>>], 0)

\* a catch block that goes back to the same candidate
catchCandidateRetries(sc) == [sc EXCEPT !.pc = "rules"]

\* the catch block of the loop body, then the next iteration
catchCandidate(sc) ==
  loopHead([emit(sc, CandidateError) EXCEPT
              !.logged = Append(@, sc.topCandidates[sc.i + 1].id)], sc.i + 1)

\* the loop body behind await scoreAndDraft, then the next iteration
afterScoreAndDraft(sc, result) ==
  IF result.throws THEN catchCandidate(sc)
  ELSE LET built == buildAnalysis(sc.fullThread, result.value, sc.rules, sc.allowlist)
       IN  IF built.throws THEN catchCandidate(sc)
           ELSE loopHead([emit(sc, ThreadEvent(built.value)) EXCEPT
                            !.analyses = Append(@, built.value)], sc.i + 1)

\* the allowlist argument the handler passes to scoreAndDraft: POST /scan
\* passes only thread and rules
allowlistArgument(sc) == IF sc.mode = "stream" THEN JArray(sc.allowlist) ELSE JUndefined

analysisScore(a) == a.score

\* a registry that forgot the entry of a scan that ended cancelled
registryAfterUnlessCancelled(old, new) ==
  IF new.mode = "stream" /\ new.pc = "done" /\ old.pc # "done" /\ ~new.cancelled
  THEN [activeScans EXCEPT ![new.sessionId] = 0]
  ELSE activeScans

\* activeScans after a step that took scan s from record old to record new
registryAfter(old, new) ==
  IF new.mode = "stream" /\ new.pc = "done" /\ old.pc # "done"
  THEN [activeScans EXCEPT ![new.sessionId] = 0]
  ELSE activeScans

\* -------------------------------------------------------------------------
\* Actions: one per handler entry and per resumption behind an await
\* -------------------------------------------------------------------------

\* POST /scan/stream: register, then scanWithStreaming up to await searchThreads
StartStream(s, sessionId, allowlist, threadLimit) ==
  /\ scans[s].pc = "idle"
  /\ LET finalSessionId == IF sessionId = NoSessionId THEN generatedSessionId(s) ELSE sessionId
     IN  /\ scans' = [scans EXCEPT ![s] =
                        [IdleScan EXCEPT !.pc = "search", !.mode = "stream",
                                         !.sessionId = finalSessionId,
                                         !.allowlist = allowlist,
                                         !.maxThreads = IF threadLimit = 0 THEN DefaultThreadLimit
                                                        ELSE threadLimit,
                                         !.subIdx = 1,
                                         !.trace = <<Status, Status>>]]
         /\ activeScans' = [activeScans EXCEPT ![finalSessionId] = s]
  /\ UNCHANGED <<storage, cancelReply, agentCredentials, validatorVars, cacheVars, outcomeVars>>

\* POST /scan up to await searchThreads
StartScan(s, sessionId, allowlist, threadLimit) ==
  /\ scans[s].pc = "idle"
  /\ scans' = [scans EXCEPT ![s] =
                 [IdleScan EXCEPT !.pc = "search", !.mode = "plain",
                                  !.sessionId = IF sessionId = NoSessionId
                                                THEN generatedSessionId(s) ELSE sessionId,
                                  !.allowlist = allowlist,
                                  !.maxThreads = IF threadLimit = 0 THEN DefaultThreadLimit
                                                 ELSE threadLimit,
                                  !.subIdx = 1]]
  /\ UNCHANGED <<activeScans, storage, cancelReply, agentCredentials, validatorVars, cacheVars, outcomeVars>>

\* searchThreads: the request for subreddit Subs[subIdx] returns or fails
\* (the failure is caught and the loop goes on); behind the last subreddit
\* the candidates are ranked and the handler resumes
SearchReturns(s, outcome) ==
  /\ scans[s].pc = "search"
  /\ outcome \in SearchOutcomes(Subs[scans[s].subIdx])
  /\ LET sc == scans[s]
         found == IF outcome.ok
                  THEN sc.candidates \o [k \in 1..Len(outcome.posts) |-> Post(outcome.posts[k])]
                  ELSE sc.candidates
         searched == [sc EXCEPT !.candidates = found,
                                !.searchFailures = IF outcome.ok THEN @ ELSE @ + 1]
         new == IF sc.subIdx < Len(Subs)
                THEN [searched EXCEPT !.subIdx = @ + 1]
                ELSE afterDiscovery(searched, rankCandidates(found))
     IN  /\ scans' = [scans EXCEPT ![s] = new]
         /\ activeScans' = registryAfter(sc, new)
  /\ UNCHANGED <<storage, cancelReply, agentCredentials, validatorVars, cacheVars, outcomeVars>>

\* POST /scan: the 2 s pacing delay elapses
DelayElapses(s) ==
  /\ scans[s].pc = "delay"
  /\ scans' = [scans EXCEPT ![s].pc = "rules"]
  /\ UNCHANGED <<activeScans, storage, cancelReply, agentCredentials, validatorVars, cacheVars, outcomeVars>>

\* await rulesCache.getRules returns (it catches every failure itself)
RulesReturn(s, rules) ==
  /\ scans[s].pc = "rules"
  /\ scans' = [scans EXCEPT ![s].rules = rules, ![s].pc = "thread"]
  /\ UNCHANGED <<activeScans, storage, cancelReply, agentCredentials, validatorVars, cacheVars, outcomeVars>>

\* await redditClient.getThread returns; scoreAndDraft runs up to its fetch,
\* or to its end when it makes no request
ThreadReturns(s) ==
  /\ scans[s].pc = "thread"
  /\ LET sc == [scans[s] EXCEPT !.fullThread = scans[s].topCandidates[scans[s].i + 1]]
         start == scoreAndDraftStart(sc.fullThread, sc.rules, allowlistArgument(sc),
                                     agentCredentials)
     IN  scans' = [scans EXCEPT ![s] =
                     IF start.fetch THEN [sc EXCEPT !.pc = "agent"]
                     ELSE afterScoreAndDraft(sc, start.result)]
  /\ UNCHANGED <<activeScans, storage, cancelReply, agentCredentials, validatorVars, cacheVars, outcomeVars>>

\* await redditClient.getThread throws
ThreadFails(s) ==
  /\ scans[s].pc = "thread"
  /\ scans' = [scans EXCEPT ![s] = catchCandidate(scans[s])]
  /\ UNCHANGED <<activeScans, storage, cancelReply, agentCredentials, validatorVars, cacheVars, outcomeVars>>

\* the fetch of scoreAndDraft settles with reply
AgentReturns(s, reply) ==
  /\ scans[s].pc = "agent"
  /\ LET sc == scans[s]
     IN  scans' = [scans EXCEPT ![s] =
                     afterScoreAndDraft(sc, scoreAndDraftFinish(reply, sc.fullThread, sc.rules,
                                                                allowlistArgument(sc)))]
  /\ UNCHANGED <<activeScans, storage, cancelReply, agentCredentials, validatorVars, cacheVars, outcomeVars>>

\* await storage.writeJSON(session key) returns: the completion events of the
\* stream handler, or the sorted response of POST /scan
WriteReturns(s) ==
  /\ scans[s].pc = "write"
  /\ LET sc == scans[s]
         written == [sc EXCEPT !.trace = Append(@, Write(sc.sessionId, sc.analyses))]
         new == IF sc.mode = "stream"
                THEN closeAndDeregister(emit(written, Completed(Len(sc.analyses))))
                ELSE [written EXCEPT !.pc = "done",
                                     !.response = [status |-> 200,
                                                   threads |-> sortDesc(sc.analyses,
                                                     [k \in 1..Len(sc.analyses) |->
                                                        analysisScore(sc.analyses[k])])]]
     IN  /\ scans' = [scans EXCEPT ![s] = new]
         /\ storage' = [storage EXCEPT ![sc.sessionId] =
                          [sessionId |-> sc.sessionId, threads |-> sc.analyses]]
         /\ activeScans' = registryAfter(sc, new)
  /\ UNCHANGED <<cancelReply, agentCredentials, validatorVars, cacheVars, outcomeVars>>

\* await storage.writeJSON(session key) throws: the outer catch block
WriteFails(s) ==
  /\ scans[s].pc = "write"
  /\ LET sc == scans[s]
         new == IF sc.mode = "stream"
                THEN closeAndDeregister(emit(sc, FatalError))
                ELSE [sc EXCEPT !.pc = "done", !.response = [status |-> 500]]
     IN  /\ scans' = [scans EXCEPT ![s] = new]
         /\ activeScans' = registryAfter(sc, new)
  /\ UNCHANGED <<storage, cancelReply, agentCredentials, validatorVars, cacheVars, outcomeVars>>

\* POST /scan/cancel/:sessionId
\* the cancel handler answering every request with success
CancelAlwaysFound(sessionId) ==
  /\ IF sessionId \in DOMAIN activeScans /\ activeScans[sessionId] # 0
     THEN /\ scans' = [scans EXCEPT ![activeScans[sessionId]].cancelled = TRUE]
          /\ cancelReply' = 200
     ELSE /\ scans' = scans
          /\ cancelReply' = 200
  /\ UNCHANGED <<activeScans, storage, agentCredentials, validatorVars, cacheVars, outcomeVars>>

\* a cancel handler that aborted the call in flight and ended the loop at once
CancelAborts(sessionId) ==
  /\ IF sessionId \in DOMAIN activeScans /\ activeScans[sessionId] # 0
     THEN /\ scans' = [scans EXCEPT ![activeScans[sessionId]].cancelled = TRUE,
                                    ![activeScans[sessionId]].pc = "write"]
          /\ cancelReply' = 200
     ELSE /\ scans' = scans
          /\ cancelReply' = 404
  /\ UNCHANGED <<activeScans, storage, agentCredentials, validatorVars, cacheVars, outcomeVars>>

Cancel(sessionId) ==
  /\ IF sessionId \in DOMAIN activeScans /\ activeScans[sessionId] # 0
     THEN /\ scans' = [scans EXCEPT ![activeScans[sessionId]].cancelled = TRUE]
          /\ cancelReply' = 200
     ELSE /\ scans' = scans
          /\ cancelReply' = 404
  /\ UNCHANGED <<activeScans, storage, agentCredentials, validatorVars, cacheVars, outcomeVars>>

\* -------------------------------------------------------------------------
\* Inputs
\* -------------------------------------------------------------------------

ACo == <<"a",".","c","o">>

BCo == <<"b",".","c","o">>

LinkA == HTTPS \o ACo

LinkB == HTTPS \o BCo

\* the allowlist of a scan request: absent or empty, or one domain
Allowlists == {<<>>, <<ACo>>}

\* the threadLimit of a scan request, 0 when absent
ThreadLimits == {0, 1}

ConservativeRules == [linksAllowed |-> FALSE, vendorDisclosureRequired |-> TRUE, linkLimit |-> 1]

\* what getRules can return
RulesSummaries ==
  {ConservativeRules,
   [linksAllowed |-> TRUE, vendorDisclosureRequired |-> TRUE, linkLimit |-> 0],
   [linksAllowed |-> TRUE, vendorDisclosureRequired |-> FALSE, linkLimit |-> 0]}

\* draft texts the scoring service can send
DraftPlain == <<"o","k">>

DraftOneLink == <<"s","e","e"," ">> \o LinkA

DraftTwoLinks == LinkA \o <<" ">> \o LinkB

DraftNested == LinkA \o <<"?","u","=">> \o LinkB \o <<" ">> \o LinkB

\* a link whose scheme is written in capitals
DraftUpperLink == <<"s","e","e"," ","H","T","T","P","S",":","/","/","a",".","c","o">>

\* disclosures the scoring service can send
DisclosurePlain == JString(<<"I"," ","w","o","r","k"," ","o","n"," ","a">>)

DisclosureLink == JString(<<"v","i","a"," ">> \o LinkB)

DisclosureNumber == JNumber(5)

\* the value a well-formed content of the scoring service decodes to
Parsed(score, variantA, variantB, disclosure) ==
  [score |-> JNumber(score), whyFit |-> JString(<<>>), rulesSummary |-> JArray(<<>>),
   risks |-> JArray(<<>>), variantAText |-> JString(variantA),
   variantBText |-> JString(variantB), disclosure |-> disclosure]

JsonReply(parsed) == [kind |-> "json", parsed |-> parsed]

\* replies without a usable analysis: a rejected fetch, HTTP 429, a body that
\* is no JSON, a body without content, content that is no JSON, content with
\* a score of the wrong type, content without variantB
FailureReplies ==
  {[kind |-> "transport"], [kind |-> "http", status |-> 429], [kind |-> "nojson"],
   [kind |-> "nocontent"], [kind |-> "notjson"],
   JsonReply([Parsed(90, DraftPlain, DraftPlain, JUndefined) EXCEPT !.score = JString(<<"9","0">>)]),
   JsonReply([Parsed(90, DraftPlain, DraftPlain, JUndefined) EXCEPT !.variantBText = JUndefined])}

\* well-formed replies: two scores, a link with its scheme in capitals, a
\* disclosure that is no string, drafts with several links and a disclosure
\* with a link
ValidReplies ==
  {JsonReply(Parsed(40, DraftPlain, DraftOneLink, JUndefined)),
   JsonReply(Parsed(90, DraftPlain, DraftUpperLink, DisclosurePlain)),
   JsonReply(Parsed(90, DraftPlain, DraftOneLink, DisclosureNumber)),
   JsonReply(Parsed(90, DraftNested, DraftTwoLinks, DisclosureLink))}

ScanReplies == ValidReplies \cup FailureReplies

ScanRules ==
  {ConservativeRules,
   [linksAllowed |-> TRUE, vendorDisclosureRequired |-> TRUE, linkLimit |-> 0]}

\* the session ids a cancel request can name
CancelTargets == SessionIds \cup {"unknown"}

\* -------------------------------------------------------------------------
\* Scan specification: one scan request, cancel requests at any moment
\* -------------------------------------------------------------------------

ScanInit ==
  /\ scans = [s \in ScanIds |-> IdleScan]
  /\ activeScans = [id \in SessionIds |-> 0]
  /\ storage = [id \in SessionIds |-> NoRecord]
  /\ cancelReply = 0
  /\ outcomeStore = [t \in ThreadIds |-> [absent |-> TRUE]]
  /\ outcomeCalls = [r \in OutcomeRequests |-> [pc |-> "idle"]]
  /\ agentCredentials \in BOOLEAN
  /\ vText = <<>>
  /\ vAllowlist = <<>>
  /\ vDisclosure = <<>>
  /\ vResult = [fn |-> "none"]
  /\ rulesStore = [sub \in CachedSubs |-> NoRecord]
  /\ now = 0
  /\ rulesCall = IdleCall

Init == ScanInit

Next ==
  \/ \E sessionId \in CallerSessionIds \cup {NoSessionId}, allowlist \in Allowlists,
        threadLimit \in ThreadLimits : StartStream(1, sessionId, allowlist, threadLimit)
  \/ \E sessionId \in CallerSessionIds \cup {NoSessionId}, allowlist \in Allowlists,
        threadLimit \in ThreadLimits : StartScan(1, sessionId, allowlist, threadLimit)
  \/ \E outcome \in SearchOutcomes("sub1") \cup SearchOutcomes("sub2") : SearchReturns(1, outcome)
  \/ DelayElapses(1)
  \/ \E rules \in ScanRules : RulesReturn(1, rules)
  \/ ThreadReturns(1)
  \/ ThreadFails(1)
  \/ \E reply \in ScanReplies : AgentReturns(1, reply)
  \/ WriteReturns(1)
  \/ WriteFails(1)
  \/ \E sessionId \in CancelTargets : Cancel(sessionId)

Spec == Init /\ [][Next]_vars

\* -------------------------------------------------------------------------
\* RedditClient.getSubredditRules and RulesCache.getRules
\* -------------------------------------------------------------------------

includesAny(text, words) == \E w \in words : includes(text, w)

\* `${rule.short_name || ''} ${rule.description || ''}`.toLowerCase()
ruleTextOf(rule) == toLowerCase(rule.short_name \o <<" ">> \o rule.description)

\* the body of the loop over the rules; linkLimit 0 stands for null
ruleStep(acc, ruleText) ==
  LET noLinks == includesAny(ruleText, {<<"n","o"," ","l","i","n","k">>,
                                        <<"n","o"," ","u","r","l">>,
                                        <<"n","o"," ","s","p","a","m">>})
      disclosure == includesAny(ruleText, {<<"d","i","s","c","l","o","s","u","r","e">>,
                                           <<"a","f","f","i","l","i","a","t","e">>,
                                           <<"p","r","o","m","o","t","i","o","n">>})
      oneLink == includesAny(ruleText, {<<"o","n","e"," ","l","i","n","k">>,
                                        <<"s","i","n","g","l","e"," ","l","i","n","k">>})
      noPromoFriday == /\ includes(ruleText, <<"f","r","i","d","a","y">>)
                       /\ includesAny(ruleText, {<<"n","o"," ","p","r","o","m","o">>,
                                                 <<"n","o"," ","p","r","o","m","o","t","i","o","n">>})
  IN  [linksAllowed |-> acc.linksAllowed /\ ~noLinks,
       vendorDisclosureRequired |-> acc.vendorDisclosureRequired \/ disclosure,
       linkLimit |-> IF oneLink THEN 1 ELSE acc.linkLimit,
       notes |-> acc.notes
                 \o (IF noLinks THEN <<"No links allowed">> ELSE <<>>)
                 \o (IF disclosure THEN <<"Vendor disclosure required">> ELSE <<>>)
                 \o (IF noPromoFriday THEN <<"No promo Fridays">> ELSE <<>>)]

RECURSIVE rulesLoop(_, _, _)
rulesLoop(acc, rules, i) ==
  IF i > Len(rules) THEN acc
  ELSE rulesLoop(ruleStep(acc, ruleTextOf(rules[i])), rules, i + 1)

\* the conservative defaults of both catch blocks
ConservativeDefaults ==
  [linksAllowed |-> FALSE, vendorDisclosureRequired |-> TRUE, linkLimit |-> 1,
   notes |-> <<"Failed to fetch rules - using conservative defaults">>]

\* the part of getSubredditRules behind the loop
withSubmissionType(summary, submissionType) ==
  [summary EXCEPT !.notes = IF submissionType = "self" THEN Append(@, "Text posts only") ELSE @]

\* getSubredditRules: rulesData and aboutData are what the two requests
\* settled with.  kind "failed": makeRequest rejected (no connection, a
\* response that is not ok, a body that is no JSON) and the request's own
\* catch put { rules: [] } or { data: {} } in its place; kind "null": the body
\* is null, reading a property of it throws and the outer catch block answers;
\* kind "body": the decoded body
getSubredditRules(rulesData, aboutData) ==
  IF rulesData.kind = "null" \/ aboutData.kind = "null"
  THEN ConservativeDefaults
  ELSE withSubmissionType(
         rulesLoop([linksAllowed |-> TRUE, vendorDisclosureRequired |-> FALSE,
                    linkLimit |-> 0, notes |-> <<>>],
                   IF rulesData.kind = "failed" THEN <<>> ELSE rulesData.rules, 1),
         IF aboutData.kind = "failed" THEN "" ELSE aboutData.submission_type)

CACHE_DURATION_MS == 24 * 60 * 60 * 1000

\* isCacheValid with an inclusive comparison
isCacheValidInclusive(cachedAt) == now - cachedAt <= CACHE_DURATION_MS

isCacheValid(cachedAt) == now - cachedAt < CACHE_DURATION_MS

\* what readJSON gave a call whose read threw
Unreadable == [unreadable |-> TRUE]

\* getRules(subreddit) up to await storage.readJSON
GetRules(subreddit) ==
  /\ rulesCall.pc \in {"idle", "done"}
  /\ rulesCall' = [pc |-> "read", subreddit |-> subreddit]
  /\ UNCHANGED <<rulesStore, now, scanVars, validatorVars, outcomeVars>>

\* await storage.readJSON returns: a fresh entry is returned, else
\* getSubredditRules is called
ReadReturns ==
  /\ rulesCall.pc = "read"
  /\ LET cached == rulesStore[rulesCall.subreddit]
         read == [subreddit |-> rulesCall.subreddit, cached |-> cached, readAt |-> now]
     IN  rulesCall' =
           IF cached # NoRecord /\ isCacheValid(cached.cachedAt)
           THEN read @@ [pc |-> "done", fetched |-> FALSE, result |-> cached.rules]
           ELSE read @@ [pc |-> "fetch", fetched |-> TRUE]
  /\ UNCHANGED <<rulesStore, now, scanVars, validatorVars, outcomeVars>>

\* await storage.readJSON throws: logged, then getSubredditRules is called
ReadFails ==
  /\ rulesCall.pc = "read"
  /\ rulesCall' = [pc |-> "fetch", subreddit |-> rulesCall.subreddit, cached |-> Unreadable,
                   readAt |-> now, fetched |-> TRUE]
  /\ UNCHANGED <<rulesStore, now, scanVars, validatorVars, outcomeVars>>

\* await getSubredditRules returns; getRules up to await storage.writeJSON
FetchReturns(rulesData, aboutData) ==
  /\ rulesCall.pc = "fetch"
  /\ rulesCall' = [rulesCall EXCEPT !.pc = "write"]
                  @@ [source |-> rulesData.kind,
                      entry |-> [rules |-> getSubredditRules(rulesData, aboutData),
                                 cachedAt |-> now]]
  /\ UNCHANGED <<rulesStore, now, scanVars, validatorVars, outcomeVars>>

\* await storage.writeJSON returns: the rules fetched are the result
CacheWriteReturns ==
  /\ rulesCall.pc = "write"
  /\ rulesStore' = [rulesStore EXCEPT ![rulesCall.subreddit] = rulesCall.entry]
  /\ rulesCall' = [rulesCall EXCEPT !.pc = "done"]
                  @@ [wrote |-> TRUE, result |-> rulesCall.entry.rules]
  /\ UNCHANGED <<now, scanVars, validatorVars, outcomeVars>>

\* await storage.writeJSON throws: the catch block answers with the defaults
CacheWriteFails ==
  /\ rulesCall.pc = "write"
  /\ rulesCall' = [rulesCall EXCEPT !.pc = "done"]
                  @@ [wrote |-> FALSE, result |-> ConservativeDefaults]
  /\ UNCHANGED <<rulesStore, now, scanVars, validatorVars, outcomeVars>>

\* the values of Date.now() looked at: a millisecond less than the cache
\* duration apart, the cache duration apart and more
NowValues == {0, 1, CACHE_DURATION_MS, CACHE_DURATION_MS + 1, 2 * CACHE_DURATION_MS}

\* time passes
Tick(later) ==
  /\ later > now
  /\ now' = later
  /\ UNCHANGED <<rulesStore, rulesCall, scanVars, validatorVars, outcomeVars>>

\* what the rules request and the about request can settle with
FetchOutcomes ==
  {<<[kind |-> "failed"], [kind |-> "failed"]>>,
   <<[kind |-> "null"], [kind |-> "body", submission_type |-> "self"]>>,
   <<[kind |-> "body",
      rules |-> <<[short_name |-> <<"N","o"," ","l","i","n","k","s">>, description |-> <<>>]>>],
     [kind |-> "body", submission_type |-> "self"]>>,
   <<[kind |-> "body",
      rules |-> <<[short_name |-> <<"R","u","l","e"," ","2">>,
                   description |-> <<"O","n","e"," ","l","i","n","k",","," ">>
                                   \o <<"w","i","t","h"," ","d","i","s","c","l","o","s","u","r","e">>]>>],
     [kind |-> "failed"]>>}

RulesInit ==
  /\ rulesStore = [sub \in CachedSubs |-> NoRecord]
  /\ now = 0
  /\ rulesCall = IdleCall
  /\ scans = [s \in ScanIds |-> IdleScan]
  /\ activeScans = [id \in SessionIds |-> 0]
  /\ storage = [id \in SessionIds |-> NoRecord]
  /\ cancelReply = 0
  /\ outcomeStore = [t \in ThreadIds |-> [absent |-> TRUE]]
  /\ outcomeCalls = [r \in OutcomeRequests |-> [pc |-> "idle"]]
  /\ agentCredentials = FALSE
  /\ vText = <<>>
  /\ vAllowlist = <<>>
  /\ vDisclosure = <<>>
  /\ vResult = [fn |-> "none"]

RulesNext ==
  \/ \E subreddit \in CachedSubs : GetRules(subreddit)
  \/ ReadReturns
  \/ ReadFails
  \/ \E outcome \in FetchOutcomes : FetchReturns(outcome[1], outcome[2])
  \/ CacheWriteReturns
  \/ CacheWriteFails
  \/ \E later \in NowValues : Tick(later)

SpecRules == RulesInit /\ [][RulesNext]_vars

\* -------------------------------------------------------------------------
\* Registry specification: every scan request is a streaming scan of at most
\* one candidate, the requests run concurrently, cancel requests at any
\* moment
\* -------------------------------------------------------------------------

\* the listings reddit answers with: the first post, or nothing
RegistryOutcomes == {[ok |-> TRUE, posts |-> <<1>>], [ok |-> TRUE, posts |-> <<>>]}

RegistryReply == JsonReply(Parsed(40, DraftPlain, DraftOneLink, JUndefined))

RegistryInit ==
  /\ scans = [s \in ScanIds |-> IdleScan]
  /\ activeScans = [id \in SessionIds |-> 0]
  /\ storage = [id \in SessionIds |-> NoRecord]
  /\ cancelReply = 0
  /\ outcomeStore = [t \in ThreadIds |-> [absent |-> TRUE]]
  /\ outcomeCalls = [r \in OutcomeRequests |-> [pc |-> "idle"]]
  /\ agentCredentials = TRUE
  /\ vText = <<>>
  /\ vAllowlist = <<>>
  /\ vDisclosure = <<>>
  /\ vResult = [fn |-> "none"]
  /\ rulesStore = [sub \in CachedSubs |-> NoRecord]
  /\ now = 0
  /\ rulesCall = IdleCall

RegistryNext ==
  \/ \E s \in ScanIds, sessionId \in CallerSessionIds \cup {NoSessionId} :
        StartStream(s, sessionId, <<>>, 1)
  \/ \E s \in ScanIds, outcome \in RegistryOutcomes : SearchReturns(s, outcome)
  \/ \E s \in ScanIds : RulesReturn(s, ConservativeRules)
  \/ \E s \in ScanIds : ThreadReturns(s)
  \/ \E s \in ScanIds : ThreadFails(s)
  \/ \E s \in ScanIds : AgentReturns(s, RegistryReply)
  \/ \E s \in ScanIds : WriteReturns(s)
  \/ \E s \in ScanIds : WriteFails(s)
  \/ \E sessionId \in CancelTargets : Cancel(sessionId)

SpecRegistry == RegistryInit /\ [][RegistryNext]_vars

\* -------------------------------------------------------------------------
\* Request validation: zValidator('json', ScanRequestSchema) in front of both
\* scan handlers
\* -------------------------------------------------------------------------

isArrayOfLength(j, least, most) == j.t = "array" /\ Len(j.v) >= least /\ Len(j.v) <= most

isNumberWithin(j, least, most) == j.t = "number" /\ j.v >= least /\ j.v <= most

\* ScanRequestSchema accepting an empty list of subreddits
ScanRequestSchemaNoMin(body) ==
  /\ isArrayOfLength(body.subs, 0, 10)
  /\ isArrayOfLength(body.keywords, 1, 20)
  /\ isNumberWithin(body.lookbackHours, 1, 168)
  /\ body.threadLimit.t = "undefined" \/ isNumberWithin(body.threadLimit, 1, 50)
  /\ body.sessionId.t \in {"undefined", "string"}
  /\ body.allowlist.t \in {"undefined", "array"}

\* ScanRequestSchema.safeParse(body).success; a field the body omits is
\* undefined
ScanRequestSchema(body) ==
  /\ isArrayOfLength(body.subs, 1, 10)
  /\ isArrayOfLength(body.keywords, 1, 20)
  /\ isNumberWithin(body.lookbackHours, 1, 168)
  /\ body.threadLimit.t = "undefined" \/ isNumberWithin(body.threadLimit, 1, 50)
  /\ body.sessionId.t \in {"undefined", "string"}
  /\ body.allowlist.t \in {"undefined", "array"}

\* the arguments the handlers take from a valid body
sessionIdOf(body) == IF body.sessionId.t = "undefined" THEN NoSessionId ELSE body.sessionId.v

allowlistOf(body) == IF body.allowlist.t = "undefined" THEN <<>> ELSE body.allowlist.v

threadLimitOf(body) == IF body.threadLimit.t = "undefined" THEN 0 ELSE body.threadLimit.v

\* the validator answers 400 and the handler does not run
rejectRequest(s, mode) ==
  /\ scans' = [scans EXCEPT ![s] = [IdleScan EXCEPT !.pc = "done", !.mode = mode,
                                                    !.response = [status |-> 400]]]
  /\ UNCHANGED <<activeScans, storage, cancelReply, agentCredentials, validatorVars, cacheVars, outcomeVars>>

\* POST /scan with body
PostScan(s, body) ==
  /\ scans[s].pc = "idle"
  /\ IF ScanRequestSchema(body)
     THEN StartScan(s, sessionIdOf(body), allowlistOf(body), threadLimitOf(body))
     ELSE rejectRequest(s, "plain")

\* POST /scan/stream with body
PostScanStream(s, body) ==
  /\ scans[s].pc = "idle"
  /\ IF ScanRequestSchema(body)
     THEN StartStream(s, sessionIdOf(body), allowlistOf(body), threadLimitOf(body))
     ELSE rejectRequest(s, "stream")

\* more subreddits than the schema admits
ElevenSubs == [k \in 1..11 |-> "sub1"]

\* the bodies of the scan requests: every field absent, at and beyond the
\* limits of the schema
ScanBodies ==
  [subs : {JUndefined, JArray(<<>>), JArray(Subs), JArray(ElevenSubs)},
   keywords : {JUndefined, JArray(<<>>), JArray(<<"react">>)},
   lookbackHours : {JUndefined, JNumber(0), JNumber(1), JNumber(168), JNumber(169)},
   threadLimit : {JUndefined, JNumber(51)},
   sessionId : {JUndefined, JString("A")},
   allowlist : {JUndefined}]

\* replies of the scoring service: a score inside the range the prompt asks
\* for, one above and one below it
RequestReplies ==
  {RegistryReply,
   JsonReply(Parsed(150, DraftPlain, DraftPlain, JUndefined)),
   JsonReply(Parsed(0 - 5, DraftPlain, DraftPlain, JUndefined))}

\* the listings reddit answers with: nothing, the first post, the first two
RequestOutcomes == RegistryOutcomes \cup {[ok |-> TRUE, posts |-> <<1, 2>>]}

RequestNext ==
  \/ \E body \in ScanBodies : PostScan(1, body)
  \/ \E body \in ScanBodies : PostScanStream(1, body)
  \/ \E outcome \in RequestOutcomes : SearchReturns(1, outcome)
  \/ DelayElapses(1)
  \/ RulesReturn(1, ConservativeRules)
  \/ ThreadReturns(1)
  \/ ThreadFails(1)
  \/ \E reply \in RequestReplies : AgentReturns(1, reply)
  \/ WriteReturns(1)
  \/ WriteFails(1)
  \/ \E sessionId \in CancelTargets : Cancel(sessionId)

SpecRequests == RegistryInit /\ [][RequestNext]_vars

\* an external call of scan s returns or fails: discovery, the pacing timer,
\* getRules, getThread, the scoring service, the storage write
ExternalCallSettles(s) ==
  \/ \E outcome \in RequestOutcomes : SearchReturns(s, outcome)
  \/ DelayElapses(s)
  \/ RulesReturn(s, ConservativeRules)
  \/ ThreadFails(s)
  \/ ThreadReturns(s)
  \/ \E reply \in RequestReplies : AgentReturns(s, reply)
  \/ WriteFails(s)
  \/ WriteReturns(s)

\* the same requests, with every external call settling eventually
SpecRequestsFair ==
  RegistryInit /\ [][RequestNext]_vars /\ \A s \in ScanIds : WF_vars(ExternalCallSettles(s))

\* -------------------------------------------------------------------------
\* POST /outcomes (outcomes.ts lines 10-54): the requests run concurrently,
\* each one from await to await
\* -------------------------------------------------------------------------

RedditComment(n) ==
  <<"h","t","t","p","s",":","/","/","r","e","d","d","i","t",".","c","o","m","/",n>>

\* the comment URLs of the requests: two comments on reddit.com and a link to
\* another site, all of them URLs as CreateOutcomeRequestSchema demands
CommentUrls == {RedditComment("1"), RedditComment("2"), LinkA}

\* the handler up to await storage.readJSON
PostOutcome(r, threadId, commentUrl) ==
  /\ outcomeCalls[r].pc = "idle"
  /\ LET url == urlHostname(commentUrl)
         call == [threadId |-> threadId, commentUrl |-> commentUrl]
     IN  outcomeCalls' = [outcomeCalls EXCEPT ![r] =
           IF ~url.ok
           THEN call @@ [pc |-> "done", response |-> [status |-> 500]]
           ELSE IF ~includes(url.hostname, <<"r","e","d","d","i","t",".","c","o","m">>)
           THEN call @@ [pc |-> "done", response |-> [status |-> 400]]
           ELSE call @@ [pc |-> "read"]]
  /\ UNCHANGED <<outcomeStore, scanVars, validatorVars, cacheVars>>

\* await storage.readJSON returns: 409 when a record exists, else the new
\* record is built and writeJSON is called
OutcomeReadReturns(r) ==
  /\ outcomeCalls[r].pc = "read"
  /\ LET call == outcomeCalls[r]
         existingOutcome == outcomeStore[call.threadId]
     IN  outcomeCalls' = [outcomeCalls EXCEPT ![r] =
           IF existingOutcome # NoRecord
           THEN [threadId |-> call.threadId, commentUrl |-> call.commentUrl,
                 pc |-> "done", response |-> [status |-> 409]]
           ELSE [threadId |-> call.threadId, commentUrl |-> call.commentUrl,
                 pc |-> "write",
                 outcome |-> [threadId |-> call.threadId, commentUrl |-> call.commentUrl,
                              status |-> "pending", insertedAt |-> now]]]
  /\ UNCHANGED <<outcomeStore, scanVars, validatorVars, cacheVars>>

\* await storage.readJSON throws: the catch block
OutcomeReadFails(r) ==
  /\ outcomeCalls[r].pc = "read"
  /\ outcomeCalls' = [outcomeCalls EXCEPT ![r] =
       [threadId |-> outcomeCalls[r].threadId, commentUrl |-> outcomeCalls[r].commentUrl,
        pc |-> "done", response |-> [status |-> 500]]]
  /\ UNCHANGED <<outcomeStore, scanVars, validatorVars, cacheVars>>

\* await storage.writeJSON returns: the record is stored, the answer is 200
OutcomeWriteReturns(r) ==
  /\ outcomeCalls[r].pc = "write"
  /\ outcomeStore' = [outcomeStore EXCEPT ![outcomeCalls[r].threadId] = outcomeCalls[r].outcome]
  /\ outcomeCalls' = [outcomeCalls EXCEPT ![r] =
       [threadId |-> outcomeCalls[r].threadId, commentUrl |-> outcomeCalls[r].commentUrl,
        pc |-> "done", response |-> [status |-> 200, outcome |-> outcomeCalls[r].outcome]]]
  /\ UNCHANGED <<scanVars, validatorVars, cacheVars>>

\* await storage.writeJSON throws: the catch block
OutcomeWriteFails(r) ==
  /\ outcomeCalls[r].pc = "write"
  /\ outcomeCalls' = [outcomeCalls EXCEPT ![r] =
       [threadId |-> outcomeCalls[r].threadId, commentUrl |-> outcomeCalls[r].commentUrl,
        pc |-> "done", response |-> [status |-> 500]]]
  /\ UNCHANGED <<outcomeStore, scanVars, validatorVars, cacheVars>>

OutcomeNext ==
  \/ \E r \in OutcomeRequests, threadId \in ThreadIds, commentUrl \in CommentUrls :
       PostOutcome(r, threadId, commentUrl)
  \/ \E r \in OutcomeRequests : OutcomeReadReturns(r)
  \/ \E r \in OutcomeRequests : OutcomeReadFails(r)
  \/ \E r \in OutcomeRequests : OutcomeWriteReturns(r)
  \/ \E r \in OutcomeRequests : OutcomeWriteFails(r)
  \/ \E later \in NowValues : Tick(later)

SpecOutcomes == RulesInit /\ [][OutcomeNext]_vars

\* -------------------------------------------------------------------------
\* Validator specification: each validator applied to every text of a
\* bounded vocabulary
\* -------------------------------------------------------------------------

\* the tail that turns the host of LinkB into a subdomain of a.co
DotACo == <<".">> \o ACo

\* the disclosures handed to ensureDisclosure
Disclosures == {DisclosurePlain.v, <<"X">>}

Vocabulary == {LinkA, LinkB, DotACo, <<"/","d">>, <<" ">>, <<"x">>, <<"\n">>}

RECURSIVE TextsOf(_)
TextsOf(n) ==
  IF n = 0 THEN {<<>>}
  ELSE TextsOf(n - 1) \cup {t \o piece : t \in TextsOf(n - 1), piece \in Vocabulary}

Texts == TextsOf(MaxPieces)

ValidatorInit ==
  /\ vText \in Texts
  /\ vAllowlist \in Allowlists
  /\ vDisclosure \in Disclosures
  /\ vResult = [fn |-> "none"]
  /\ rulesStore = [sub \in CachedSubs |-> NoRecord]
  /\ now = 0
  /\ rulesCall = IdleCall
  /\ scans = [s \in ScanIds |-> IdleScan]
  /\ activeScans = [id \in SessionIds |-> 0]
  /\ storage = [id \in SessionIds |-> NoRecord]
  /\ cancelReply = 0
  /\ outcomeStore = [t \in ThreadIds |-> [absent |-> TRUE]]
  /\ outcomeCalls = [r \in OutcomeRequests |-> [pc |-> "idle"]]
  /\ agentCredentials = FALSE

CallEnforceOneLink ==
  /\ vResult.fn = "none"
  /\ vResult' = [fn |-> "enforceOneLink", value |-> enforceOneLink(vText)]
  /\ UNCHANGED <<vText, vAllowlist, vDisclosure, scanVars, cacheVars, outcomeVars>>

CallEnforceOneLinkShared ==
  /\ vResult.fn = "none"
  /\ vResult' = [fn |-> "enforceOneLinkShared", value |-> enforceOneLinkShared(vText)]
  /\ UNCHANGED <<vText, vAllowlist, vDisclosure, scanVars, cacheVars, outcomeVars>>

CallEnforceAllowlist ==
  /\ vResult.fn = "none"
  /\ vResult' = [fn |-> "enforceAllowlist", value |-> enforceAllowlist(vText, vAllowlist)]
  /\ UNCHANGED <<vText, vAllowlist, vDisclosure, scanVars, cacheVars, outcomeVars>>

CallEnforceAllowlistShared ==
  /\ vResult.fn = "none"
  /\ vResult' = [fn |-> "enforceAllowlistShared",
                 value |-> enforceAllowlistShared(vText, vAllowlist)]
  /\ UNCHANGED <<vText, vAllowlist, vDisclosure, scanVars, cacheVars, outcomeVars>>

CallEnsureDisclosure ==
  /\ vResult.fn = "none"
  /\ vResult' = [fn |-> "ensureDisclosure", value |-> ensureDisclosure(vText, vDisclosure)]
  /\ UNCHANGED <<vText, vAllowlist, vDisclosure, scanVars, cacheVars, outcomeVars>>

ValidatorNext ==
  \/ CallEnforceOneLink
  \/ CallEnforceOneLinkShared
  \/ CallEnforceAllowlist
  \/ CallEnforceAllowlistShared
  \/ CallEnsureDisclosure

SpecValidators == ValidatorInit /\ [][ValidatorNext]_vars

\* -------------------------------------------------------------------------
\* Properties
\* -------------------------------------------------------------------------

positions(xs, P(_)) == {k \in 1..Len(xs) : P(xs[k])}

countOf(xs, P(_)) == Cardinality(positions(xs, P))

IsThreadEvent(e) == e.type = "thread"

IsProgress(e) == e.type = "progress"

IsCancelled(e) == e.type = "cancelled"

IsCompleted(e) == e.type = "completed"

IsWrite(e) == e.type = "write"

IsDeregister(e) == e.type = "deregister"

IsFatalError(e) == e.type = "error" /\ "error" \in DOMAIN e

IsCandidateError(e) == e.type = "error" /\ "message" \in DOMAIN e

StreamScans == {s \in ScanIds : scans[s].mode = "stream"}

PlainScans == {s \in ScanIds : scans[s].mode = "plain"}

\* at most one link, and every link on the allowlist when there is one
linksWithin(text, allowlist) ==
  LET links == extractLinks(text)
  IN  /\ Len(links) <= 1
      /\ allowlist # <<>> =>
           \A k \in 1..Len(links) :
             /\ urlHostname(links[k]).ok
             /\ isAllowed(stripWww(urlHostname(links[k]).hostname), allowlist)

draftsWithin(analysis, allowlist) ==
  /\ linksWithin(analysis.variantA, allowlist)
  /\ linksWithin(analysis.variantB, allowlist)

\* C1: in every thread event, every persisted record and every response of a
\* scan, the final Variant A and Variant B texts hold at most one link each,
\* and with a non-empty allowlist only links to allowlisted hosts.
C1_DraftsKeepLinkConstraints ==
  \A s \in ScanIds :
    /\ \A k \in 1..Len(scans[s].trace) :
         LET e == scans[s].trace[k]
         IN  /\ e.type = "thread" => draftsWithin(e.thread, scans[s].allowlist)
             /\ e.type = "write" =>
                  \A j \in 1..Len(e.threads) : draftsWithin(e.threads[j], scans[s].allowlist)
    /\ scans[s].response.status = 200 =>
         \A j \in 1..Len(scans[s].response.threads) :
           draftsWithin(scans[s].response.threads[j], scans[s].allowlist)

\* C2: the events of a streaming scan are non-terminal events followed by
\* exactly one terminal event: a terminal event is the last event, and a
\* finished scan has one.
C2_OneTerminalEventLast ==
  \A s \in StreamScans :
    LET ev == Events(s)
    IN  /\ \A k \in 1..Len(ev) : IsTerminal(ev[k]) => k = Len(ev)
        /\ scans[s].pc = "done" => Len(ev) > 0 /\ IsTerminal(ev[Len(ev)])

\* C3: a streaming scan that ended by exhausting its candidates or by
\* cancellation has written its session record exactly once, under its
\* session key, then emitted its one terminal event, then deregistered.
C3_WriteThenTerminalThenDeregister ==
  \A s \in StreamScans :
    (scans[s].pc = "done" /\ positions(scans[s].trace, IsFatalError) = {}) =>
      LET tr == scans[s].trace
          W == positions(tr, IsWrite)
          T == positions(tr, IsTerminal)
          D == positions(tr, IsDeregister)
      IN  /\ Cardinality(W) = 1
          /\ Cardinality(T) = 1
          /\ Cardinality(D) = 1
          /\ \A w \in W, t \in T, d \in D :
               w < t /\ t < d /\ tr[w].key = scans[s].sessionId

\* the state part of C4
C4_CancelledKeepsAnalyses ==
  \A s \in StreamScans :
    LET sc == scans[s]
        ev == Events(s)
        C == positions(ev, IsCancelled)
        W == positions(sc.trace, IsWrite)
        threadEvents == SelectSeq(ev, IsThreadEvent)
    IN  /\ \A c \in C : \A k \in (c + 1)..Len(ev) : ev[k].type \notin {"progress", "thread"}
        /\ (sc.pc \in {"write", "done"} /\ sc.i < Len(sc.topCandidates)) => C # {}
        /\ C # {} => sc.pc \in {"write", "done"}
        /\ (C # {} /\ sc.pc = "done") =>
             /\ sc.analyses = [k \in 1..Len(threadEvents) |-> threadEvents[k].thread]
             /\ \A w \in W : sc.trace[w].threads = sc.analyses
             /\ (W = {} /\ positions(sc.trace, IsFatalError) = {}) => sc.analyses = <<>>

\* the step part of C4
C4_NoCandidateStartedOnceCancelled ==
  \A s \in ScanIds :
    (scans[s].mode = "stream" /\ scans[s].cancelled) =>
      countOf(scans'[s].trace, IsProgress) = countOf(scans[s].trace, IsProgress)

C5_EveryCandidateAccounted ==
  \A s \in ScanIds :
    LET sc == scans[s]
        ev == Events(s)
    IN  sc.pc \in {"rules", "thread", "agent", "delay", "write", "done"} =>
          /\ Len(sc.analyses) + Len(sc.logged) = sc.i
          /\ {sc.analyses[k].thread : k \in 1..Len(sc.analyses)}
               \cup {sc.logged[k] : k \in 1..Len(sc.logged)}
             = {sc.topCandidates[k].id : k \in 1..sc.i}
          /\ sc.mode = "stream" =>
               /\ countOf(ev, IsCandidateError) = Len(sc.logged)
               /\ countOf(ev, IsThreadEvent) = Len(sc.analyses)
          /\ (sc.pc \in {"write", "done"} /\ positions(ev, IsCancelled) = {}) =>
               sc.i = Len(sc.topCandidates)
          /\ (sc.pc = "done" /\ positions(sc.trace, IsWrite) # {}) =>
               /\ sc.mode = "stream" => ev[Len(ev)] = Completed(Len(sc.analyses))
               /\ sc.mode = "plain" => sc.response.status = 200

\* the step part of C5
C5_FailureMovesToNextCandidate ==
  \A s \in ScanIds :
    Len(scans'[s].logged) = Len(scans[s].logged) + 1 =>
      /\ scans'[s].analyses = scans[s].analyses
      /\ scans'[s].i = scans[s].i + 1
      /\ scans'[s].logged[Len(scans'[s].logged)] = scans[s].topCandidates[scans[s].i + 1].id
      /\ scans'[s].pc \in {"rules", "delay", "write"}
      /\ scans'[s].mode = "stream" =>
           /\ countOf(Events(s)', IsCandidateError) = countOf(Events(s), IsCandidateError) + 1
           /\ countOf(Events(s)', IsFatalError) = 0

\* replies whose content cannot be decoded into the expected object
DecodeFailureReplies == {r \in FailureReplies : r.kind \in {"nojson", "nocontent", "notjson", "json"}}

\* replies of an unavailable service
UnavailableReplies == {r \in FailureReplies : r.kind \in {"transport", "http"}}

\* scan s records a candidate-local error and no analysis in this step
candidateFailed(s) ==
  /\ scans'[s].analyses = scans[s].analyses
  /\ Len(scans'[s].logged) = Len(scans[s].logged) + 1
  /\ countOf(Events(s)', IsThreadEvent) = countOf(Events(s), IsThreadEvent)

\* the steps in which the processing of a candidate fails
C5_FailedStepAddsNoAnalysis ==
  \A s \in ScanIds :
    (\/ ThreadFails(s)
     \/ ~agentCredentials /\ ThreadReturns(s)
     \/ \E reply \in FailureReplies : AgentReturns(s, reply)) => candidateFailed(s)

\* C5: a candidate whose processing fails at a step (thread fetch, scoring
\* call, decoding, draft validation) is reported by a per-candidate error and
\* adds no analysis; the loop goes on with the next candidate, so that every
\* candidate ends as an analysis or as a logged failure, and the scan still
\* writes its record and completes.
C5_CandidateFailureIsLocal ==
  /\ [] C5_EveryCandidateAccounted
  /\ [][C5_FailureMovesToNextCandidate]_vars
  /\ [][C5_FailedStepAddsNoAnalysis]_vars

\* C6: when the content of the scoring service's response cannot be decoded,
\* or the decoded value lacks a field or has a field of the wrong type, the
\* candidate gets a candidate-local error and no analysis, mock or other.
C6_DecodeFailureYieldsNoAnalysis ==
  [][\A s \in ScanIds : \A reply \in DecodeFailureReplies :
       AgentReturns(s, reply) => candidateFailed(s)]_vars

\* C7: when the scoring service is unavailable (no credentials, a non-success
\* HTTP status, a transport error) the candidate gets an error and no thread
\* event or analysis is built from content the service did not produce.
C7_UnavailableServiceYieldsNoAnalysis ==
  /\ [][\A s \in ScanIds :
         (\/ ~agentCredentials /\ ThreadReturns(s)
          \/ \E reply \in UnavailableReplies : AgentReturns(s, reply)) => candidateFailed(s)]_vars
  /\ [] (\A s \in ScanIds : \A k \in 1..Len(scans[s].trace) :
           LET e == scans[s].trace[k]
           IN  /\ e.type = "thread" => e.thread.origin = "service"
               /\ e.type = "write" =>
                    \A j \in 1..Len(e.threads) : e.threads[j].origin = "service")

\* C8: a scan whose discovery failed (no search could be obtained) ends at
\* once with a fatal error (HTTP 500 for POST /scan): no candidate processed,
\* no record written, the session deregistered.
C8_DiscoveryFailureFailsScan ==
  \A s \in ScanIds :
    LET sc == scans[s]
    IN  (sc.pc \notin {"idle", "search"} /\ sc.searchFailures = Len(Subs)) =>
          /\ sc.pc = "done"
          /\ positions(sc.trace, IsWrite) = {}
          /\ positions(sc.trace, IsProgress) = {}
          /\ positions(sc.trace, IsCompleted) = {}
          /\ sc.mode = "stream" =>
               /\ positions(sc.trace, IsFatalError) # {}
               /\ activeScans[sc.sessionId] # s
          /\ sc.mode = "plain" => sc.response.status = 500

nonIncreasingScores(threads) ==
  \A j \in 1..(Len(threads) - 1) : analysisScore(threads[j]) >= analysisScore(threads[j + 1])

\* C9: every record a scan writes to storage lists its analyses in
\* non-increasing order of score.
C9_PersistedSortedByScore ==
  /\ \A id \in SessionIds :
       "threads" \in DOMAIN storage[id] => nonIncreasingScores(storage[id].threads)
  /\ \A s \in ScanIds : \A k \in 1..Len(scans[s].trace) :
       scans[s].trace[k].type = "write" => nonIncreasingScores(scans[s].trace[k].threads)

\* C10: the cleaned text of enforceOneLink holds at most one link, and when
\* the input holds links it is the first link of the input, intact and where
\* it was.
C10_OneLinkKeepsFirst ==
  vResult.fn \in {"enforceOneLink", "enforceOneLinkShared"} =>
    LET links == extractLinks(vText)
        kept == extractLinks(vResult.value.cleaned)
    IN  /\ Len(kept) <= 1
        /\ Len(links) >= 1 =>
             /\ kept = <<links[1]>>
             /\ indexOf(vResult.value.cleaned, links[1]) > 0

\* a link that enforceAllowlist has to reject under the allowlist
rejectedLink(link, allowlist) ==
  \/ ~urlHostname(link).ok
  \/ ~isAllowed(stripWww(urlHostname(link).hostname), allowlist)

\* what enforceAllowlist records for a rejected link
violationOf(link) ==
  IF urlHostname(link).ok THEN urlHostname(link).hostname ELSE link

\* C11: with a non-empty allowlist every link left in the cleaned text of
\* enforceAllowlist has a host equal to or a subdomain of an allowlist entry,
\* every rejected link of the input is gone from the cleaned text and is
\* recorded in violations, and ok is true exactly when violations is empty.
C11_AllowlistKeepsOnlyAllowed ==
  (vResult.fn \in {"enforceAllowlist", "enforceAllowlistShared"} /\ vAllowlist # <<>>) =>
    LET links == extractLinks(vText)
        kept == extractLinks(vResult.value.cleaned)
    IN  /\ \A j \in 1..Len(kept) : ~rejectedLink(kept[j], vAllowlist)
        /\ \A k \in 1..Len(links) :
             rejectedLink(links[k], vAllowlist) =>
               /\ \A j \in 1..Len(kept) : kept[j] # links[k]
               /\ \E j \in 1..Len(vResult.value.violations) :
                    vResult.value.violations[j] = violationOf(links[k])
        /\ vResult.value.ok <=> (vResult.value.violations = <<>>)


\* the analyses a scan has handed out: in thread events, in storage writes
\* and in the response of POST /scan
handedOut(s) ==
  {scans[s].trace[k].thread :
     k \in {j \in 1..Len(scans[s].trace) : scans[s].trace[j].type = "thread"}}
  \cup UNION {{scans[s].trace[k].threads[j] : j \in 1..Len(scans[s].trace[k].threads)} :
              k \in {j \in 1..Len(scans[s].trace) : scans[s].trace[j].type = "write"}}
  \cup (IF scans[s].response.status = 200
        THEN {scans[s].response.threads[j] : j \in 1..Len(scans[s].response.threads)}
        ELSE {})

\* the final Variant B text carries a non-empty disclosure statement
carriesDisclosure(analysis) ==
  /\ analysis.disclosure.t = "string"
  /\ analysis.disclosure.v # <<>>
  /\ includes(toLowerCase(analysis.variantB), toLowerCase(analysis.disclosure.v))

\* C12: every ThreadAnalysis of a scan whose rules require a vendor
\* disclosure and whose final Variant B text still holds a link carries a
\* non-empty disclosure statement inside that text.
C12_LinkedVariantBIsDisclosed ==
  \A s \in ScanIds :
    \A analysis \in handedOut(s) :
      (analysis.rules.vendorDisclosureRequired /\ extractLinks(analysis.variantB) # <<>>)
        => carriesDisclosure(analysis)


\* the validator applied once more to its own cleaned output
cleanedAgain ==
  CASE vResult.fn = "enforceOneLink" -> enforceOneLink(vResult.value.cleaned)
    [] vResult.fn = "enforceOneLinkShared" -> enforceOneLinkShared(vResult.value.cleaned)
    [] vResult.fn = "enforceAllowlist" -> enforceAllowlist(vResult.value.cleaned, vAllowlist)
    [] vResult.fn = "enforceAllowlistShared" ->
         enforceAllowlistShared(vResult.value.cleaned, vAllowlist)

\* C13: enforceOneLink and enforceAllowlist are idempotent: applied to their
\* own cleaned output (enforceAllowlist with the same allowlist) they report
\* ok = true and return that text unchanged.
C13_CleaningIsIdempotent ==
  vResult.fn \in {"enforceOneLink", "enforceOneLinkShared",
                  "enforceAllowlist", "enforceAllowlistShared"} =>
    /\ cleanedAgain.ok
    /\ cleanedAgain.cleaned = vResult.value.cleaned


\* C14: with an empty allowlist enforceAllowlist returns ok = true, no
\* violations and the input text itself, whatever links and white space the
\* text holds.
C14_EmptyAllowlistIsIdentity ==
  (vResult.fn \in {"enforceAllowlist", "enforceAllowlistShared"} /\ vAllowlist = <<>>) =>
    /\ vResult.value.ok
    /\ vResult.value.violations = <<>>
    /\ vResult.value.cleaned = vText

\* enforceAllowlist has answered for a text of two links, each followed by
\* white space, and an empty allowlist
C14_Witness ==
  /\ vResult.fn = "enforceAllowlist"
  /\ vAllowlist = <<>>
  /\ Len(extractLinks(vText)) = 2
  /\ vText[Len(vText)] \in WhiteSpace

\* C15: ensureDisclosure applied to its own result with the same disclosure
\* returns that result, and a text that already holds the disclosure, in
\* whatever case, is returned unchanged.
C15_EnsureDisclosureIdempotent ==
  vResult.fn = "ensureDisclosure" =>
    /\ ensureDisclosure(vResult.value, vDisclosure) = vResult.value
    /\ includes(toLowerCase(vText), toLowerCase(vDisclosure)) => vResult.value = vText

\* ensureDisclosure has answered for a text that holds the disclosure in
\* another case only
C15_Witness ==
  /\ vResult.fn = "ensureDisclosure"
  /\ vDisclosure # <<>>
  /\ ~includes(vText, vDisclosure)
  /\ includes(toLowerCase(vText), toLowerCase(vDisclosure))
  /\ Len(vText) > Len(vDisclosure)
  /\ vResult.value = vText


\* the streaming scans that have started and not yet terminated
RunningStreamScans ==
  {s \in ScanIds : scans[s].mode = "stream" /\ scans[s].pc \notin {"idle", "done"}}

\* C16: every running scan has its own cancellation handle registered under
\* its session id until it terminates, so that a cancel request naming the
\* id reaches the flag of that scan and of no other.
C16_RunningScanKeepsOwnHandle ==
  \A s \in RunningStreamScans : activeScans[scans[s].sessionId] = s

\* a streaming scan started under sessionId is running
isRunning(sessionId) ==
  \E s \in RunningStreamScans : scans[s].sessionId = sessionId

\* what a cancel request naming sessionId may do: set the flag of a scan
\* running under that id, and nothing at all when there is none
cancelFrame(sessionId) ==
  /\ activeScans' = activeScans
  /\ storage' = storage
  /\ \A s \in ScanIds :
       \/ scans'[s] = scans[s]
       \/ /\ s \in RunningStreamScans
          /\ scans[s].sessionId = sessionId
          /\ scans'[s] = [scans[s] EXCEPT !.cancelled = TRUE]
  /\ ~isRunning(sessionId) => (scans' = scans /\ cancelReply' = 404)

\* C17: a cancel request for a session id that is unknown or whose scan has
\* finished changes no scan, no registry entry and no persisted record and
\* is answered with not found; a cancel request for a running session leaves
\* a flag that is set as it is and changes nothing but that flag.
C17_CancelChangesOnlyTheFlag ==
  [][\A sessionId \in CancelTargets : Cancel(sessionId) => cancelFrame(sessionId)]_vars

\* a cancel request was answered with not found after the scan under "A" had
\* finished and its record was written
C17_Witness ==
  /\ scans[1].mode = "stream"
  /\ scans[1].pc = "done"
  /\ scans[1].sessionId = "A"
  /\ ~scans[1].cancelled
  /\ storage["A"] # NoRecord
  /\ activeScans["A"] = 0
  /\ cancelReply = 404


\* the call has read the cache
hasRead == rulesCall.pc \in {"fetch", "write", "done"}

\* what the call read is an entry less than 24 hours old at the time
readFreshEntry ==
  /\ rulesCall.cached # NoRecord
  /\ rulesCall.cached # Unreadable
  /\ rulesCall.readAt - rulesCall.cached.cachedAt < 86400000

\* C18: getRules returns the cached RulesSummary as it is, without calling
\* getSubredditRules, exactly when the cache holds an entry for the subreddit
\* with now - cachedAt < 24h; without an entry, with an unreadable one or
\* with one of 24h or more it calls getSubredditRules.
C18_FreshEntryIsReturnedElseFetch ==
  hasRead =>
    /\ rulesCall.fetched <=> ~readFreshEntry
    /\ (readFreshEntry /\ rulesCall.pc = "done") => rulesCall.result = rulesCall.cached.rules

\* a call has returned an entry one millisecond short of 24 hours old
C18_Witness ==
  /\ rulesCall.pc = "done"
  /\ ~rulesCall.fetched
  /\ rulesCall.readAt - rulesCall.cached.cachedAt = 86400000 - 1
  /\ rulesCall.result = rulesCall.cached.rules

\* the three fields of the conservative defaults
isConservative(rules) ==
  /\ ~rules.linksAllowed
  /\ rules.vendorDisclosureRequired
  /\ rules.linkLimit = 1

\* C19: when the rules of the subreddit could not be fetched, getRules
\* returns the conservative defaults and writes nothing to the cache, which
\* is as the call found it.
C19_FailedFetchIsNotCached ==
  (rulesCall.pc = "done" /\ rulesCall.fetched /\ rulesCall.source \in {"failed", "null"}) =>
    /\ isConservative(rulesCall.result)
    /\ ~rulesCall.wrote
    /\ rulesCall.cached # Unreadable => rulesStore[rulesCall.subreddit] = rulesCall.cached


\* the body has no subreddit, no keyword, a lookbackHours outside [1, 168]
\* or lacks one of the three
isInvalidRequest(body) ==
  \/ body.subs.t = "undefined" \/ body.subs.v = <<>>
  \/ body.keywords.t = "undefined" \/ body.keywords.v = <<>>
  \/ body.lookbackHours.t = "undefined"
  \/ body.lookbackHours.v < 1 \/ body.lookbackHours.v > 168

\* the request of scan s was answered 400 and nothing else happened
isRejected(sc) ==
  /\ sc.response.status = 400
  /\ sc.pc = "done"
  /\ sc.trace = <<>>
  /\ sc.candidates = <<>>
  /\ sc.searchFailures = 0

\* C20: a scan request without subreddits, without keywords, with a
\* lookbackHours outside [1, 168] or without a required field is answered
\* with HTTP 400 before the scan begins: no discovery, no session registered,
\* nothing persisted.
C20_InvalidRequestIsRejected ==
  /\ [](\A s \in ScanIds : scans[s].response.status = 400 => isRejected(scans[s]))
  /\ [][\A s \in ScanIds, body \in ScanBodies :
          (isInvalidRequest(body) /\ (PostScan(s, body) \/ PostScanStream(s, body))) =>
            /\ isRejected(scans'[s])
            /\ activeScans' = activeScans
            /\ storage' = storage]_vars

\* a request to POST /scan/stream was answered 400 with the registry and the
\* storage empty
C20_Witness ==
  /\ scans[1].mode = "stream"
  /\ scans[1].response.status = 400
  /\ \A id \in SessionIds : activeScans[id] = 0 /\ storage[id] = NoRecord


\* C21: every ThreadAnalysis a scan emits, returns or persists has a score
\* between 0 and 100, whatever number the scoring service sent as score.
C21_ScoresWithinRange ==
  \A s \in ScanIds :
    \A analysis \in handedOut(s) : analysis.score >= 0 /\ analysis.score <= 100


\* the streaming scan s has emitted a terminal event, closed its stream and
\* left the registry
streamTerminated(s) ==
  /\ \E k \in 1..Len(Events(s)) : IsTerminal(Events(s)[k])
  /\ Len(scans[s].trace) >= 2
  /\ scans[s].trace[Len(scans[s].trace) - 1] = Close
  /\ scans[s].trace[Len(scans[s].trace)] = Deregister(scans[s].sessionId)
  /\ activeScans[scans[s].sessionId] # s

\* scan s has an outcome its caller can see
hasOutcome(s) ==
  /\ scans[s].pc = "done"
  /\ scans[s].response.status # 400 =>
       IF scans[s].mode = "stream" THEN streamTerminated(s)
       ELSE scans[s].response.status \in {200, 500}

\* C22: when every external call returns or fails eventually, every started
\* scan ends with an outcome its caller can see: a streaming scan emits a
\* terminal event, closes the stream and is deregistered.
C22_EveryScanTerminates ==
  \A s \in ScanIds : (scans[s].pc # "idle") ~> hasOutcome(s)

\* a streaming scan has ended, closed and deregistered, after a candidate
\* that failed
C22_Witness ==
  /\ scans[1].mode = "stream"
  /\ scans[1].response.status # 400
  /\ hasOutcome(1)
  /\ \E k \in 1..Len(scans[1].trace) : IsCandidateError(scans[1].trace[k])

\* the step part of C23: a step that sets the flag changes nothing else of the
\* scan; with the flag set no candidate is started, the pending getRules is
\* followed by getThread of the same candidate, and a thread event is the last
\* thing the loop does
cancelledStep(s) ==
  LET sc == scans[s]
      threadsBefore == countOf(sc.trace, IsThreadEvent)
      threadsAfter == countOf(scans'[s].trace, IsThreadEvent)
  IN  /\ (~sc.cancelled /\ scans'[s].cancelled /\ sc.pc # "idle") =>
           scans'[s] = [sc EXCEPT !.cancelled = TRUE]
      /\ (sc.mode = "stream" /\ sc.cancelled) =>
           /\ countOf(scans'[s].trace, IsProgress) = countOf(sc.trace, IsProgress)
           /\ scans'[s].i \in {sc.i, sc.i + 1}
           /\ threadsAfter <= threadsBefore + 1
           /\ threadsAfter > threadsBefore => scans'[s].pc = "write"
           /\ sc.pc \in {"write", "done"} => threadsAfter = threadsBefore
           /\ (sc.pc = "rules" /\ scans'[s] # sc) =>
                /\ scans'[s].pc = "thread"
                /\ scans'[s].i = sc.i

\* C23: once the cancellation flag of a running scan is set, the scan finishes
\* at most the candidate in flight (at most one more thread event, after which
\* the loop is left), starts no other candidate and reaches its terminal
\* outcome; setting the flag does not touch the pending call.
C23_CancelledScanFinishesWorkInFlight ==
  /\ [][\A s \in ScanIds : cancelledStep(s)]_vars
  /\ \A s \in ScanIds : (scans[s].cancelled /\ scans[s].pc # "idle") ~> hasOutcome(s)

\* a streaming scan of two candidates cancelled while its first candidate was
\* in flight: that candidate's thread event, then the cancelled event
C23_Witness ==
  /\ scans[1].mode = "stream"
  /\ scans[1].cancelled
  /\ hasOutcome(1)
  /\ Len(scans[1].topCandidates) = 2
  /\ scans[1].i = 1
  /\ countOf(Events(1), IsThreadEvent) = 1
  /\ countOf(Events(1), IsCancelled) = 1

\* the step part of C24: the processing of a candidate (its getRules call)
\* starts behind the pacing timer unless it is the first one, and the timer
\* runs only there
pacedStep(s) ==
  /\ (scans'[s].pc = "rules" /\ scans[s].pc # "rules") =>
       IF scans'[s].i = 0 THEN scans[s].pc # "delay" ELSE scans[s].pc = "delay"
  /\ (scans[s].pc = "delay" /\ scans'[s] # scans[s]) =>
       /\ scans'[s].pc = "rules"
       /\ scans'[s].i = scans[s].i

\* C24: in a scan, streaming or not, the pacing delay runs before the
\* processing of every candidate except the first and nowhere else.
C24_DelayBeforeEveryCandidateButFirst ==
  [][\A s \in ScanIds : pacedStep(s)]_vars

inLoop(sc) == sc.pc \in {"rules", "thread", "agent", "delay"}

\* the state part of C25
C25_TopCandidatesArePrefix ==
  \A s \in ScanIds :
    LET sc == scans[s]
        ranked == rankCandidates(sc.candidates)
        n == IF Len(ranked) < sc.maxThreads THEN Len(ranked) ELSE sc.maxThreads
    IN  /\ (inLoop(sc) \/ sc.pc = "write") =>
             /\ Len(sc.topCandidates) = n
             /\ \A k \in 1..n : sc.topCandidates[k] = ranked[k]
             /\ sc.maxThreads >= 1
        /\ inLoop(sc) => sc.i < Len(sc.topCandidates)
        /\ sc.pc = "agent" => sc.fullThread = sc.topCandidates[sc.i + 1]
        /\ (sc.pc = "write" /\ ~sc.cancelled) => sc.i = Len(sc.topCandidates)

\* the step part of C25
sequentialStep(s) ==
  LET sc == scans[s]
      next == scans'[s]
  IN  /\ next.pc = "search" => sc.pc \in {"idle", "search"}
      /\ (sc.pc = "search" /\ next.pc = "search") => next.subIdx >= sc.subIdx
      /\ inLoop(sc) =>
           /\ next.topCandidates = sc.topCandidates
           /\ next.candidates = sc.candidates
           /\ next.i \in {sc.i, sc.i + 1}
           /\ next.i = sc.i =>
                /\ next.analyses = sc.analyses
                /\ next.logged = sc.logged
           /\ next.i = sc.i + 1 =>
                \/ /\ next.logged = Append(sc.logged, sc.topCandidates[sc.i + 1].id)
                   /\ next.analyses = sc.analyses
                \/ /\ next.logged = sc.logged
                   /\ Len(next.analyses) = Len(sc.analyses) + 1
                   /\ SubSeq(next.analyses, 1, Len(sc.analyses)) = sc.analyses
                   /\ next.analyses[Len(next.analyses)].thread = sc.topCandidates[sc.i + 1].id

\* C25: a scan runs discovery once, processes the first min(N, maxThreads) of
\* the N candidates discovery returned, in that order, and moves to candidate
\* i + 1 only in the step in which candidate i yields its analysis or fails.
C25_FirstCandidatesInOrderOneAtATime ==
  [] C25_TopCandidatesArePrefix /\ [][\A s \in ScanIds : sequentialStep(s)]_vars

\* a finished scan limited to one thread whose discovery returned two
C25_Witness ==
  \E s \in ScanIds :
    /\ scans[s].pc = "done"
    /\ scans[s].maxThreads = 1
    /\ Len(rankCandidates(scans[s].candidates)) = 2
    /\ Len(scans[s].topCandidates) = 1
    /\ Len(scans[s].analyses) = 1
    /\ scans[s].analyses[1].thread = rankCandidates(scans[s].candidates)[1].id

\* the state part of C26
C26_TotalCountsThreadEvents ==
  \A s \in StreamScans :
    LET sc == scans[s]
        tr == sc.trace
    IN  \A c \in positions(tr, IsCompleted) :
          /\ tr[c].totalThreads = countOf(SubSeq(tr, 1, c - 1), IsThreadEvent)
          /\ tr[c].totalThreads = sc.i - countOf(SubSeq(tr, 1, c - 1), IsCandidateError)
          /\ c > 1
          /\ IsWrite(tr[c - 1])
          /\ tr[c - 1].key = sc.sessionId
          /\ Len(tr[c - 1].threads) = tr[c].totalThreads

\* the step part of C26: the step that emits completed leaves the record of
\* that many analyses in the storage
completedStep(s) ==
  (scans[s].mode = "stream"
     /\ countOf(scans'[s].trace, IsCompleted) > countOf(scans[s].trace, IsCompleted)) =>
    LET last == scans'[s].trace[CHOOSE c \in positions(scans'[s].trace, IsCompleted) : TRUE]
    IN  /\ "threads" \in DOMAIN storage'[scans[s].sessionId]
        /\ Len(storage'[scans[s].sessionId].threads) = last.totalThreads
        /\ storage'[scans[s].sessionId].threads = scans[s].analyses

\* C26: the totalThreads of a completed event is the number of thread events
\* emitted before it, the number of candidates processed minus those that
\* failed, and the number of analyses in the session record the scan wrote.
C26_CompletedCountsAnalyses ==
  [] C26_TotalCountsThreadEvents /\ [][\A s \in ScanIds : completedStep(s)]_vars

\* a completed streaming scan of two candidates of which one failed
C26_Witness ==
  \E s \in StreamScans :
    /\ scans[s].pc = "done"
    /\ scans[s].i = 2
    /\ countOf(scans[s].trace, IsCandidateError) = 1
    /\ \E c \in positions(scans[s].trace, IsCompleted) : scans[s].trace[c].totalThreads = 1

\* the state part of C27: an entry belongs to a streaming scan that runs under
\* that id, and a scan that has terminated has none
C27_RegistryHoldsRunningScansOnly ==
  /\ \A id \in SessionIds :
       activeScans[id] # 0 =>
         /\ activeScans[id] \in RunningStreamScans
         /\ scans[activeScans[id]].sessionId = id
  /\ \A s \in ScanIds :
       scans[s].pc = "done" => \A id \in SessionIds : activeScans[id] # s

\* the step part of C27: the step that starts a streaming scan registers it,
\* the step that ends one removes the entry of its id
registryStep(s) ==
  /\ (scans[s].pc = "idle" /\ scans'[s].mode = "stream" /\ scans'[s].pc # "done") =>
       activeScans'[scans'[s].sessionId] = s
  /\ (scans[s].mode = "stream" /\ scans[s].pc \notin {"idle", "done"} /\ scans'[s].pc = "done") =>
       activeScans'[scans[s].sessionId] = 0

\* C27: a session id enters the registry when its scan starts and leaves it
\* on every terminal outcome; the registry holds entries of running scans only.
C27_RegistryBoundedByRunningScans ==
  [] C27_RegistryHoldsRunningScansOnly /\ [][\A s \in ScanIds : registryStep(s)]_vars

\* a scan that was cancelled during discovery has terminated and its entry is
\* gone, while another scan is still registered
C27_Witness ==
  \E s \in StreamScans :
    /\ scans[s].pc = "done"
    /\ countOf(scans[s].trace, IsCancelled) = 1
    /\ scans[s].topCandidates = <<>>
    /\ activeScans[scans[s].sessionId] = 0
    /\ \E id \in SessionIds : activeScans[id] # 0

\* C28: when getSubredditRules answered from the bodies of its two requests,
\* getRules returns the summary it computed, whatever the storage does, and
\* the cache holds that summary under the time of the fetch.
C28_FetchedRulesAreReturnedAndCached ==
  (rulesCall.pc = "done" /\ rulesCall.fetched /\ rulesCall.source = "body") =>
    /\ rulesCall.result = rulesCall.entry.rules
    /\ rulesStore[rulesCall.subreddit] = rulesCall.entry

\* C29: with a non-empty allowlist and a text none of whose links is rejected
\* (no links at all, or allowlisted ones only) enforceAllowlist answers ok
\* with no violations and returns the text as it was given, white space and
\* line breaks included.
C29_NothingRejectedLeavesTextUnchanged ==
  (/\ vResult.fn \in {"enforceAllowlist", "enforceAllowlistShared"}
   /\ vAllowlist # <<>>
   /\ \A k \in 1..Len(extractLinks(vText)) : ~rejectedLink(extractLinks(vText)[k], vAllowlist)) =>
    /\ vResult.value.ok
    /\ vResult.value.violations = <<>>
    /\ vResult.value.cleaned = vText

\* the step part of C30: a record that exists stays as it is, and no request
\* for its thread is answered with success
onlyFirstCreationSucceeds(t) ==
  outcomeStore[t] # NoRecord =>
    /\ outcomeStore'[t] = outcomeStore[t]
    /\ \A r \in OutcomeRequests :
         (outcomeCalls[r].pc # "done" /\ outcomeCalls'[r].pc = "done"
            /\ outcomeCalls'[r].threadId = t) =>
           outcomeCalls'[r].response.status # 200

\* C30: for each threadId at most one POST /outcomes succeeds: once a record
\* exists for the thread no request for it, later or concurrent, is answered
\* with success and the record stays unchanged.
C30_AtMostOneOutcomePerThread ==
  [][\A t \in ThreadIds : onlyFirstCreationSucceeds(t)]_vars

====
